---- MODULE Spec2Model ----
(***************************************************************************)
(* Resilient element targeting of src/index.js (class AdvancedWebCrawler): *)
(* the descriptor built at scan time by extractElementInfo /               *)
(* getUniqueSelector / getStructuralSelector, the fallback chain of        *)
(* clickElement, and the fuzzy matcher of findElement.                     *)
(*                                                                         *)
(* A DOM element is a record of the attributes the code reads.  An absent  *)
(* attribute is the empty string (the code only tests truthiness, and      *)
(* `x || null` folds "" and null together); an absent text is the empty    *)
(* sequence.  Texts are sequences of character codes so that substring,    *)
(* includes and length are computed, not assumed.                          *)
(***************************************************************************)
EXTENDS Integers, Sequences, FiniteSets, TLC

Null == ""

\* ------------------------------------------------------------- bounds
\* Longest live page (number of elements document.querySelectorAll("*")
\* returns to the fuzzy matcher).
MaxLive == 2
\* Largest same-tag sibling ordinal of the scanned element.
MaxNth == 2

\* ------------------------------------------------- program constants
TextPrefixLen == 50
TextSelectorMaxLen == 100
TextSnippetLen == 200
FuzzyThreshold == 30
PositionTolerance == 50
ScoreTag == 10
ScoreText == 20
ScoreRole == 15
ScoreAriaLabel == 25
ScorePosition == 15
ScorePlaceholder == 20

\* ---------------------------------------------------------------- text
Min(a, b) == IF a < b THEN a ELSE b

\* String.prototype.substring(0, n)
Substring0(t, n) == SubSeq(t, 1, Min(n, Len(t)))

\* String.prototype.includes
Includes(hay, needle) ==
    \E k \in 0..(Len(hay) - Len(needle)) :
        SubSeq(hay, k + 1, k + Len(needle)) = needle

TSend == <<1, 2>>
TSendNow == <<1, 2, 3>>
TOther == <<4>>
\* a text longer than TextPrefixLen, and a live text holding only its prefix
TLong == [k \in 1..60 |-> 5]
TLongCut == [k \in 1..52 |-> IF k <= 50 THEN 5 ELSE 6]

\* ------------------------------------------------------------ selectors
\* One CSS selector or XPath string, kept structured:
\*   tagattr  tag[attr="val"]          attr     [attr="val"]
\*   id       #val                     rel      attr[aria-label="val"] > tag
\*   hastext  tag:has-text("val")      pos      tag:nth-of-type(n)
\*   csspath  html > body > tag(:nth-of-type(n))   cssid  tag#val
\*   xaria    //*[@aria-label="val"]   xtext    //tag[contains(text(),"txt")]
\*   xid      //*[@id="val"]           xpos     /html/body/tag[n]
\*   contains tag:contains("txt")      tag      tag          any  *
\* (for <html> and <body> the csspath and xpos forms end at that tag)
Sel(kind, tag, attr, val, txt, n) ==
    [kind |-> kind, tag |-> tag, attr |-> attr, val |-> val, txt |-> txt, n |-> n]

NoSel == Sel("none", Null, Null, Null, <<>>, 0)

\* Array.prototype.filter(Boolean) on a list of selector-or-null
RECURSIVE FilterBoolean(_)
FilterBoolean(s) ==
    IF s = <<>> THEN <<>>
    ELSE IF Head(s) = NoSel THEN FilterBoolean(Tail(s))
    ELSE <<Head(s)>> \o FilterBoolean(Tail(s))

\* /^[a-f0-9-]{20,}$/ on the identifiers of the model
RandomIds == {"3f9a0c1e-77ab-4d21-9e0f"}
IsRandomId(s) == s \in RandomIds

\* ------------------------------------------------------------- elements
Element(tag, id, name, role, ariaLabel, title, placeholder, testid, text, box) ==
    [tag |-> tag, id |-> id, name |-> name, role |-> role,
     ariaLabel |-> ariaLabel, title |-> title, placeholder |-> placeholder,
     testid |-> testid, text |-> text, box |-> box]

\* getBoundingClientRect(): has = FALSE is a descriptor without boundingBox
Box(has, top, left, width, height) ==
    [has |-> has, top |-> top, left |-> left, width |-> width, height |-> height]

NoBox == Box(FALSE, 0, 0, 0, 0)

\* element.type: the IDL attribute has a default on form controls
TypeProp(el) ==
    CASE el.tag = "button" -> "submit"
      [] el.tag = "input" -> "text"
      [] OTHER -> Null

\* element.placeholder exists on input only
PlaceholderProp(el) == IF el.tag = "input" THEN el.placeholder ELSE Null

\* element.name exists on form controls only
NameProp(el) == IF el.tag \in {"button", "input"} THEN el.name ELSE Null

\* element.textContent.trim()
TrimmedText(el) == el.text

\* ------------------------------------------------ getStructuralSelector
StructuralSemantic(el) ==
    IF el.ariaLabel # Null THEN Sel("tagattr", el.tag, "aria-label", el.ariaLabel, <<>>, 0)
    ELSE IF el.role # Null THEN Sel("tagattr", el.tag, "role", el.role, <<>>, 0)
    ELSE NoSel

\* The path is built up to, and without, document.body: it is the empty
\* string for <body> itself
StructuralPositional(el, nth) ==
    IF el.tag = "body" THEN NoSel ELSE Sel("pos", el.tag, Null, Null, <<>>, nth)

\* element.attributes in source order (name, role, aria-label, title,
\* placeholder, data-testid), class/id/style skipped
StructuralAttributeBased(el) ==
    LET one(attr, val) ==
            IF val # Null THEN <<Sel("tagattr", el.tag, attr, val, <<>>, 0)>> ELSE <<>>
    IN one("name", el.name) \o one("role", el.role)
       \o one("aria-label", el.ariaLabel) \o one("title", el.title)
       \o one("placeholder", el.placeholder) \o one("data-testid", el.testid)

StructuralTextBased(el) ==
    LET t == TrimmedText(el)
    IN IF Len(t) > 0 /\ Len(t) < TextSelectorMaxLen
       THEN Sel("hastext", el.tag, Null, Null, t, 0)
       ELSE NoSel

StructuralRelationship(el, parentAria) ==
    IF parentAria # Null THEN Sel("rel", el.tag, "body", parentAria, <<>>, 0) ELSE NoSel

getStructuralSelector(el, nth, parentAria) ==
    [present |-> TRUE,
     semantic |-> StructuralSemantic(el),
     positional |-> StructuralPositional(el, nth),
     attributeBased |-> StructuralAttributeBased(el),
     textBased |-> StructuralTextBased(el),
     relationship |-> StructuralRelationship(el, parentAria)]

NoStructural ==
    [present |-> FALSE, semantic |-> NoSel, positional |-> NoSel,
     attributeBased |-> <<>>, textBased |-> NoSel, relationship |-> NoSel]

\* ---------------------------------------------------- getUniqueSelector
UniqueSelectors(el, structural) ==
    LET opt(c, s) == IF c THEN <<s>> ELSE <<>>
    IN  opt(structural.semantic # NoSel, structural.semantic)
        \o structural.attributeBased
        \o opt(structural.relationship # NoSel, structural.relationship)
        \o opt(structural.textBased # NoSel, structural.textBased)
        \o opt(structural.positional # NoSel, structural.positional)
        \o opt(el.id # Null /\ ~IsRandomId(el.id), Sel("id", Null, Null, el.id, <<>>, 0))
        \o opt(NameProp(el) # Null, Sel("attr", Null, "name", NameProp(el), <<>>, 0))
        \o opt(el.testid # Null /\ ~IsRandomId(el.testid),
               Sel("attr", Null, "data-testid", el.testid, <<>>, 0))
        \o opt(el.ariaLabel # Null, Sel("attr", Null, "aria-label", el.ariaLabel, <<>>, 0))
        \o opt(el.title # Null, Sel("attr", Null, "title", el.title, <<>>, 0))
        \o opt(el.role # Null, Sel("attr", Null, "role", el.role, <<>>, 0))
        \o opt(TypeProp(el) # Null, Sel("tagattr", el.tag, "type", TypeProp(el), <<>>, 0))
        \o opt(PlaceholderProp(el) # Null,
               Sel("attr", Null, "placeholder", PlaceholderProp(el), <<>>, 0))
        \o opt(el.testid # Null, Sel("attr", Null, "data-testid", el.testid, <<>>, 0))

getXPath(el, nth) ==
    IF el.id # Null /\ ~IsRandomId(el.id)
    THEN Sel("xid", Null, Null, el.id, <<>>, 0)
    ELSE IF el.tag = "body" THEN Sel("xpos", "body", Null, Null, <<>>, 0)
    ELSE Sel("xpos", el.tag, Null, Null, <<>>, nth)

UniqueXPaths(el, nth) ==
    LET t == TrimmedText(el)
    IN  (IF el.ariaLabel # Null
         THEN <<Sel("xaria", Null, Null, el.ariaLabel, <<>>, 0)>> ELSE <<>>)
        \o (IF Len(t) > 0 /\ Len(t) < TextSelectorMaxLen
            THEN <<Sel("xtext", el.tag, Null, Null, Substring0(t, TextPrefixLen), 0)>>
            ELSE <<>>)
        \o <<getXPath(el, nth)>>

\* Variant of getCssPath: the early `return;` of the non-Element guard is
\* taken, the path is undefined
getCssPathUndefined(el, nth) == NoSel

getCssPath(el, nth) ==
    IF el.id # Null /\ ~IsRandomId(el.id)
    THEN Sel("cssid", el.tag, Null, el.id, <<>>, 0)
    ELSE Sel("csspath", el.tag, Null, Null, <<>>, nth)

Confidence(selectors, structural) ==
    IF Len(selectors) > 0
    THEN IF structural.semantic # NoSel THEN "high"
         ELSE IF Len(structural.attributeBased) > 0 THEN "medium"
         ELSE "low"
    ELSE "low"

getUniqueSelector(el, nth, parentAria, useStructural) ==
    LET structural == IF useStructural
                      THEN getStructuralSelector(el, nth, parentAria)
                      ELSE NoStructural
        selectors == UniqueSelectors(el, structural)
        xpaths == UniqueXPaths(el, nth)
        cssPath == getCssPath(el, nth)
    IN [selectors |-> selectors,
        xpaths |-> xpaths,
        xpath |-> xpaths[1],
        cssPath |-> cssPath,
        preferredSelector |-> IF Len(selectors) > 0 THEN selectors[1] ELSE cssPath,
        structural |-> structural,
        confidence |-> Confidence(selectors, structural)]

\* --------------------------------------------------- extractElementInfo
\* [tagName, role, aria-label, placeholder, type, title].filter(Boolean)
Fingerprint(el) ==
    LET one(v) == IF v # Null THEN <<v>> ELSE <<>>
    IN <<el.tag>> \o one(el.role) \o one(el.ariaLabel)
       \o one(PlaceholderProp(el)) \o one(TypeProp(el)) \o one(el.title)

extractElementInfo(el, nth, parentAria, useStructural) ==
    LET s == getUniqueSelector(el, nth, parentAria, useStructural)
    IN [tag |-> el.tag,
        text |-> Substring0(TrimmedText(el), TextSnippetLen),
        id |-> el.id,
        name |-> NameProp(el),
        type |-> TypeProp(el),
        placeholder |-> PlaceholderProp(el),
        ariaLabel |-> el.ariaLabel,
        role |-> el.role,
        title |-> el.title,
        selectors |-> s.selectors,
        xpaths |-> s.xpaths,
        xpath |-> s.xpath,
        cssPath |-> s.cssPath,
        preferredSelector |-> s.preferredSelector,
        structural |-> s.structural,
        confidence |-> s.confidence,
        fingerprint |-> Fingerprint(el),
        boundingBox |-> el.box]

\* ---------------------------------------------------------- clickElement
\* Variant of Strategies: the cssPath entry placed in front of the stored
\* selectors instead of after them
StrategiesCssPathFirst(info) ==
    LET attr(name, val) ==
            IF val # Null THEN Sel("attr", Null, name, val, <<>>, 0) ELSE NoSel
    IN FilterBoolean(
        <<info.structural.semantic>>
        \o info.structural.attributeBased
        \o <<info.structural.relationship,
             attr("aria-label", info.ariaLabel),
             attr("role", info.role),
             attr("placeholder", info.placeholder),
             attr("title", info.title),
             info.preferredSelector,
             info.cssPath>>
        \o info.selectors
        \o <<IF info.id # Null THEN Sel("id", Null, Null, info.id, <<>>, 0) ELSE NoSel,
             attr("name", info.name)>>)

\* The `strategies` array of clickElement, after .filter(Boolean)
Strategies(info) ==
    LET attr(name, val) ==
            IF val # Null THEN Sel("attr", Null, name, val, <<>>, 0) ELSE NoSel
    IN FilterBoolean(
        <<info.structural.semantic>>
        \o info.structural.attributeBased
        \o <<info.structural.relationship,
             attr("aria-label", info.ariaLabel),
             attr("role", info.role),
             attr("placeholder", info.placeholder),
             attr("title", info.title),
             info.preferredSelector>>
        \o info.selectors
        \o <<info.cssPath,
             IF info.id # Null THEN Sel("id", Null, Null, info.id, <<>>, 0) ELSE NoSel,
             attr("name", info.name)>>)

\* `${tag}:has-text("${text.substring(0, 50)}")`
TextSelector(info) ==
    Sel("hastext", info.tag, Null, Null, Substring0(info.text, TextPrefixLen), 0)

\* Centre of the stored bounding box.  The boxes of the model have even
\* width and height, so the division is exact.
CoordX(box) == box.left + box.width \div 2
CoordY(box) == box.top + box.height \div 2

\* What the live page can answer to an attempt with this selector: TRUE is
\* "located and clicked", FALSE is a timeout, no match or a thrown error.
\* Puppeteer hands the selector to querySelector, which rejects the
\* non-standard :has-text() pseudo-class, so such an attempt always throws.
PageOutcomes(sel) == IF sel.kind = "hastext" THEN {FALSE} ELSE BOOLEAN

\* Return values.  `keys` are the properties the returned object has.
Result(keys, success, method, selector, error, found, score, x, y) ==
    [keys |-> keys, success |-> success, method |-> method, selector |-> selector,
     error |-> error, found |-> found, score |-> score, x |-> x, y |-> y]

NoResult == Result({}, FALSE, Null, NoSel, Null, FALSE, 0, 0, 0)

CssSuccess(selector) ==
    Result({"success", "method", "selector"}, TRUE, "css", selector, Null, FALSE, 0, 0, 0)

XPathSuccess(xpath) ==
    Result({"success", "method", "selector"}, TRUE, "xpath", xpath, Null, FALSE, 0, 0, 0)

TextSuccess(selector) ==
    Result({"success", "method", "selector"}, TRUE, "text", selector, Null, FALSE, 0, 0, 0)

CoordinatesSuccess(x, y) ==
    Result({"success", "method", "position"}, TRUE, "coordinates", NoSel, Null, FALSE, 0, x, y)

FingerprintSuccess ==
    Result({"success", "method"}, TRUE, "fingerprint", NoSel, Null, FALSE, 0, 0, 0)

ClickFailure ==
    Result({"success", "error"}, FALSE, Null, NoSel, "All click strategies failed",
           FALSE, 0, 0, 0)

\* Variant of Phases: the coordinate click tried before the text selector
PhasesCoordinatesFirst == <<"css", "xpath", "coordinates", "text", "fingerprint">>

\* The blocks of clickElement in source order, and the condition under
\* which each is entered.
Phases == <<"css", "xpath", "text", "coordinates", "fingerprint">>

\* Variant of PhaseApplies: the coordinate block is never entered
PhaseAppliesWithoutCoordinates(info, phase) ==
    CASE phase = "css" -> Len(Strategies(info)) > 0
      [] phase = "xpath" -> Len(info.xpaths) > 0
      [] phase = "text" -> info.text # <<>>
      [] phase = "coordinates" -> FALSE
      [] OTHER -> TRUE

PhaseApplies(info, phase) ==
    CASE phase = "css" -> Len(Strategies(info)) > 0
      [] phase = "xpath" -> Len(info.xpaths) > 0
      [] phase = "text" -> info.text # <<>>
      [] phase = "coordinates" -> info.boundingBox.has /\ info.boundingBox.width > 0
      [] OTHER -> TRUE

\* The first block after position k of Phases that is entered
PhaseAfter(info, k) ==
    LET later == {j \in (k + 1)..Len(Phases) : PhaseApplies(info, Phases[j])}
    IN Phases[CHOOSE j \in later : \A m \in later : j <= m]

PhaseIndex(phase) == CHOOSE j \in 1..Len(Phases) : Phases[j] = phase

\* One recorded attempt of the chain
Attempt(method, selector, ok, x, y) ==
    [method |-> method, selector |-> selector, ok |-> ok, x |-> x, y |-> y]

\* ------------------------------------------------------------ findElement
Abs(v) == IF v < 0 THEN -v ELSE v

\* Variant of FuzzyScore: the position test written positionDiff <= 50
FuzzyScoreInclusive(info, el) ==
    LET positionDiff == Abs(el.box.top - info.boundingBox.top)
                        + Abs(el.box.left - info.boundingBox.left)
    IN (IF el.tag = info.tag THEN ScoreTag ELSE 0)
       + (IF info.text # <<>>
             /\ Includes(el.text, Substring0(info.text, TextPrefixLen))
          THEN ScoreText ELSE 0)
       + (IF info.role # Null /\ el.role = info.role THEN ScoreRole ELSE 0)
       + (IF info.ariaLabel # Null /\ el.ariaLabel = info.ariaLabel
          THEN ScoreAriaLabel ELSE 0)
       + (IF info.boundingBox.has /\ positionDiff <= PositionTolerance
          THEN ScorePosition ELSE 0)
       + (IF info.placeholder # Null /\ PlaceholderProp(el) = info.placeholder
          THEN ScorePlaceholder ELSE 0)

\* The body of scoreCandidates.map: score starts at 0 and each test that
\* passes adds to it.
FuzzyScore(info, el) ==
    LET s1 == IF el.tag = info.tag THEN ScoreTag ELSE 0
        s2 == s1 + (IF info.text # <<>>
                       /\ Includes(el.text, Substring0(info.text, TextPrefixLen))
                    THEN ScoreText ELSE 0)
        s3 == s2 + (IF info.role # Null /\ el.role = info.role THEN ScoreRole ELSE 0)
        s4 == s3 + (IF info.ariaLabel # Null /\ el.ariaLabel = info.ariaLabel
                    THEN ScoreAriaLabel ELSE 0)
        positionDiff == Abs(el.box.top - info.boundingBox.top)
                        + Abs(el.box.left - info.boundingBox.left)
        s5 == s4 + (IF info.boundingBox.has /\ positionDiff < PositionTolerance
                    THEN ScorePosition ELSE 0)
        s6 == s5 + (IF info.placeholder # Null /\ PlaceholderProp(el) = info.placeholder
                    THEN ScorePlaceholder ELSE 0)
    IN s6

\* candidates.map(...): one {element, score} per live element, in document
\* order; `element` is the element's position in the document.
ScoreCandidates(info, page) ==
    [k \in 1..Len(page) |-> [element |-> k, score |-> FuzzyScore(info, page[k])]]

\* Variant of KeepsBefore: an equal score does not keep the earlier
\* element in front (a sort that is not stable)
KeepsBeforeStrict(a, b) == b.score - a.score < 0

\* The comparator (a, b) => b.score - a.score is negative or zero when a
\* stays before b.
KeepsBefore(a, b) == b.score - a.score <= 0

\* Array.prototype.sort is stable (ECMAScript 2019): an element is placed
\* after every earlier element the comparator does not order after it.
RECURSIVE InsertSorted(_, _)
InsertSorted(sorted, x) ==
    IF sorted = <<>> THEN <<x>>
    ELSE IF KeepsBefore(Head(sorted), x)
         THEN <<Head(sorted)>> \o InsertSorted(Tail(sorted), x)
         ELSE <<x>> \o sorted

RECURSIVE SortByScore(_)
SortByScore(s) ==
    IF s = <<>> THEN <<>>
    ELSE InsertSorted(SortByScore(SubSeq(s, 1, Len(s) - 1)), s[Len(s)])

NoBest == [element |-> 0, score |-> 0]

\* scoreCandidates.sort(...)[0], undefined on an empty document
BestCandidate(scored) == IF scored = <<>> THEN NoBest ELSE SortByScore(scored)[1]

\* Variant of Accepts: the threshold test written score >= 30
AcceptsAtLeast(best) == best.element # 0 /\ best.score >= FuzzyThreshold

Accepts(best) == best.element # 0 /\ best.score > FuzzyThreshold

\* The object page.evaluate returns, which findElement returns unchanged
FuzzyFound(best) ==
    Result({"found", "score", "tag", "text"}, FALSE, Null, NoSel, Null, TRUE,
           best.score, 0, 0)

FuzzyNotFound == Result({"found"}, FALSE, Null, NoSel, Null, FALSE, 0, 0, 0)

FuzzyMatchResult(best) == IF Accepts(best) THEN FuzzyFound(best) ELSE FuzzyNotFound

\* Variant of ExactSucceeded: the test reads the fuzzy matcher's `found`
\* property, which clickElement never sets
ExactSucceededByFound(exactMatch) == exactMatch.found

\* if (exactMatch.success) return exactMatch
ExactSucceeded(exactMatch) == exactMatch.success

\* ------------------------------------------------------- inputs of the model
\* The attributes a scanned element carries together
AttributeChoices ==
    {{}, {"ariaLabel"}, {"role"}, {"title"}, {"id"}, {"name"}, {"testid"},
     {"placeholder"}, {"ariaLabel", "title"}, {"role", "title"},
     {"testid", "title"}, {"id", "name"}}

AttributeValue(a) ==
    CASE a = "ariaLabel" -> "Send"
      [] a = "role" -> "button"
      [] a = "title" -> "Go"
      [] a = "id" -> "send"
      [] a = "name" -> "q"
      [] a = "testid" -> "send-test"
      [] a = "placeholder" -> "Email"

ScanBox == Box(TRUE, 100, 100, 80, 20)

\* The elements a scan can meet
ScanElements ==
    {Element(tag,
             IF "id" \in c THEN AttributeValue("id") ELSE Null,
             IF "name" \in c THEN AttributeValue("name") ELSE Null,
             IF "role" \in c THEN AttributeValue("role") ELSE Null,
             IF "ariaLabel" \in c THEN AttributeValue("ariaLabel") ELSE Null,
             IF "title" \in c THEN AttributeValue("title") ELSE Null,
             IF "placeholder" \in c THEN AttributeValue("placeholder") ELSE Null,
             IF "testid" \in c THEN AttributeValue("testid") ELSE Null,
             text, box) :
        tag \in {"button", "input"}, c \in AttributeChoices,
        text \in {<<>>, TSend}, box \in {NoBox, ScanBox}}

ParentArias == {Null, "Chat"}

\* The descriptors a caller can hold: built by a scan, in either mode
Descriptors ==
    {extractElementInfo(el, nth, parentAria, useStructural) :
        el \in ScanElements, nth \in 1..MaxNth, parentAria \in ParentArias,
        useStructural \in BOOLEAN}

\* The elements of the live page at the time of the fuzzy match
LivePool ==
    {Element("button", Null, Null, Null, "Send", Null, Null, Null, TSend,
             Box(TRUE, 100, 100, 80, 20)),
     Element("div", Null, Null, "button", Null, Null, Null, Null, TSend,
             Box(TRUE, 100, 100, 80, 20)),
     Element("button", Null, Null, Null, Null, Null, Null, Null, TSendNow,
             Box(TRUE, 120, 130, 80, 20)),
     Element("input", Null, Null, Null, Null, Null, "Email", Null, <<>>,
             Box(TRUE, 300, 300, 120, 20))}

LivePages == UNION {[1..n -> LivePool] : n \in 0..MaxLive}

\* ------------------------------------------------------------------ state
VARIABLES
    info,             \* the stored descriptor passed to findElement
    pc,               \* the block of the running function in control
    i,                \* index of the loop in control
    attempts,         \* the strategy attempts made so far, in order
    clicks,           \* the interactions performed on the page, by method
    exactMatch,       \* what clickElement returned
    dom,              \* the document: scanned, or seen by the fuzzy matcher
    scoreCandidates,  \* its {element, score} list, in document order
    best,             \* its selected candidate
    result,           \* what findElement returned
    options,          \* the crawler's options during a scan
    results,          \* the `results` object of the scan's page.evaluate
    plan,             \* the plan handed to executeAutomation
    elements,         \* the element store handed to executeAutomation
    stepResults,      \* the `results` list of executeAutomation
    database,         \* the server's store: its pages, elements and actions maps
    requests,         \* the HTTP requests and where each handler stands
    now               \* Date.now(), in milliseconds

vars == <<info, pc, i, attempts, clicks, exactMatch, dom, scoreCandidates, best, result,
          options, results, plan, elements, stepResults, database, requests, now>>

\* The variables of the server
apiVars == <<database, requests, now>>

\* const database = {pages: new Map(), elements: new Map(), actions: new Map()}
EmptyDatabase == [pages |-> <<>>, elements |-> <<>>, actions |-> <<>>]

\* No request is being served
NoApi == database = EmptyDatabase /\ requests = <<>> /\ now = 0

\* The variables of the scan and of the plan executor
scanVars == <<options, results>>

execVars == <<plan, elements, stepResults>>

\* No scan and no plan execution is under way
NoScan == options = Null /\ results = Null

NoExecution == plan = <<>> /\ elements = <<>> /\ stepResults = <<>>

Init ==
    /\ NoApi
    /\ info \in Descriptors
    /\ pc = PhaseAfter(info, 0)
    /\ i = 1
    /\ attempts = <<>>
    /\ clicks = <<>>
    /\ exactMatch = NoResult
    /\ dom = <<>>
    /\ scoreCandidates = <<>>
    /\ best = NoBest
    /\ result = NoResult
    /\ NoScan
    /\ NoExecution

\* clickElement returns `value`
ClickReturns(value) ==
    /\ exactMatch' = value
    /\ pc' = "returned"
    /\ i' = 1

\* A failed attempt of block `phase`: control moves to the next block that
\* is entered, or clickElement returns its failure after the last one.
FallThrough(phase) ==
    IF phase = "fingerprint"
    THEN ClickReturns(ClickFailure)
    ELSE /\ pc' = PhaseAfter(info, PhaseIndex(phase))
         /\ i' = 1
         /\ exactMatch' = exactMatch

\* Variant of NextIndex: the loop skips an entry after a failure
NextIndexSkips(k) == k + 2

\* for (const selector of strategies): advance to the next entry
NextIndex(k) == k + 1

\* One iteration of `for (const selector of strategies)`
TryCss ==
    /\ pc = "css"
    /\ LET selector == Strategies(info)[i]
       IN \E ok \in PageOutcomes(selector) :
            /\ attempts' = Append(attempts, Attempt("css", selector, ok, 0, 0))
            /\ IF ok
               THEN /\ clicks' = Append(clicks, "css")
                    /\ ClickReturns(CssSuccess(selector))
               ELSE /\ clicks' = clicks
                    /\ IF NextIndex(i) <= Len(Strategies(info))
                       THEN /\ i' = NextIndex(i)
                            /\ UNCHANGED <<pc, exactMatch>>
                       ELSE FallThrough("css")
    /\ UNCHANGED <<apiVars, scanVars, execVars, info, dom, scoreCandidates, best, result>>

\* One iteration of `for (const xpath of elementInfo.xpaths)`
TryXPath ==
    /\ pc = "xpath"
    /\ LET xpath == info.xpaths[i]
       IN \E ok \in PageOutcomes(xpath) :
            /\ attempts' = Append(attempts, Attempt("xpath", xpath, ok, 0, 0))
            /\ IF ok
               THEN /\ clicks' = Append(clicks, "xpath")
                    /\ ClickReturns(XPathSuccess(xpath))
               ELSE /\ clicks' = clicks
                    /\ IF i + 1 <= Len(info.xpaths)
                       THEN /\ i' = i + 1
                            /\ UNCHANGED <<pc, exactMatch>>
                       ELSE FallThrough("xpath")
    /\ UNCHANGED <<apiVars, scanVars, execVars, info, dom, scoreCandidates, best, result>>

\* if (elementInfo.text) { page.click(`${tag}:has-text(...)`) }
TryText ==
    /\ pc = "text"
    /\ LET textSelector == TextSelector(info)
       IN \E ok \in PageOutcomes(textSelector) :
            /\ attempts' = Append(attempts, Attempt("text", textSelector, ok, 0, 0))
            /\ IF ok
               THEN /\ clicks' = Append(clicks, "text")
                    /\ ClickReturns(TextSuccess(textSelector))
               ELSE /\ clicks' = clicks
                    /\ FallThrough("text")
    /\ UNCHANGED <<apiVars, scanVars, execVars, info, dom, scoreCandidates, best, result>>

\* if (boundingBox && boundingBox.width > 0) { page.mouse.click(x, y) }
TryCoordinates ==
    /\ pc = "coordinates"
    /\ LET x == CoordX(info.boundingBox)
           y == CoordY(info.boundingBox)
       IN \E ok \in BOOLEAN :
            /\ attempts' = Append(attempts, Attempt("coordinates", NoSel, ok, x, y))
            /\ IF ok
               THEN /\ clicks' = Append(clicks, "coordinates")
                    /\ ClickReturns(CoordinatesSuccess(x, y))
               ELSE /\ clicks' = clicks
                    /\ FallThrough("coordinates")
    /\ UNCHANGED <<apiVars, scanVars, execVars, info, dom, scoreCandidates, best, result>>

\* The in-page loop that clicks the first element with the same fingerprint
TryFingerprint ==
    /\ pc = "fingerprint"
    /\ \E ok \in BOOLEAN :
            /\ attempts' = Append(attempts, Attempt("fingerprint", NoSel, ok, 0, 0))
            /\ IF ok
               THEN /\ clicks' = Append(clicks, "fingerprint")
                    /\ ClickReturns(FingerprintSuccess)
               ELSE /\ clicks' = clicks
                    /\ FallThrough("fingerprint")
    /\ UNCHANGED <<apiVars, scanVars, execVars, info, dom, scoreCandidates, best, result>>

\* findElement: if (exactMatch.success) return exactMatch
ReturnExact ==
    /\ pc = "returned"
    /\ ExactSucceeded(exactMatch)
    /\ result' = exactMatch
    /\ pc' = "done"
    /\ UNCHANGED <<apiVars, scanVars, execVars, info, i, attempts, clicks, exactMatch, dom, scoreCandidates, best>>

\* findElement: the fuzzy page.evaluate resolves; its value is returned
FuzzyMatch ==
    /\ pc = "returned"
    /\ ~ExactSucceeded(exactMatch)
    /\ \E page \in LivePages :
            /\ dom' = page
            /\ scoreCandidates' = ScoreCandidates(info, page)
            /\ best' = BestCandidate(ScoreCandidates(info, page))
            /\ result' = FuzzyMatchResult(BestCandidate(ScoreCandidates(info, page)))
    /\ attempts' = Append(attempts, Attempt("fuzzy", NoSel, result'.found, 0, 0))
    /\ pc' = "done"
    /\ UNCHANGED <<apiVars, scanVars, execVars, info, i, clicks, exactMatch>>

\* findElement: the fuzzy page.evaluate rejects (page closed, navigation,
\* execution context destroyed); nothing catches it
FuzzyThrows ==
    /\ pc = "returned"
    /\ ~ExactSucceeded(exactMatch)
    /\ attempts' = Append(attempts, Attempt("fuzzy", NoSel, FALSE, 0, 0))
    /\ pc' = "threw"
    /\ UNCHANGED <<apiVars, scanVars, execVars, info, i, clicks, exactMatch, dom, scoreCandidates, best, result>>

Next ==
    \/ TryCss
    \/ TryXPath
    \/ TryText
    \/ TryCoordinates
    \/ TryFingerprint
    \/ ReturnExact
    \/ FuzzyMatch
    \/ FuzzyThrows

Spec == Init /\ [][Next]_vars

\* ================================================================ claims
\* The attempts made with CSS selectors, in order
CssAttempts == SelectSeq(attempts, LAMBDA a : a.method = "css")

\* The first k entries of `strategies` were each attempted once, in list
\* order, and failed
FirstFailed(strategies, k) ==
    /\ k <= Len(attempts)
    /\ k <= Len(strategies)
    /\ \A j \in 1..k :
        attempts[j] = Attempt("css", strategies[j], FALSE, 0, 0)

FuzzyRan == \E k \in 1..Len(attempts) : attempts[k].method = "fuzzy"

FuzzyResolved == pc = "done" /\ FuzzyRan

BoxUsable == info.boundingBox.has /\ info.boundingBox.width > 0

\* C1: when clickElement succeeds through CSS at entry k+1 of its strategy
\* list, the k entries before it were each attempted once, in order, and
\* failed; nothing is attempted after it; and it returns
\* {success:true, method:"css", selector} with that entry as selector.
C1_CssStopsAtFirstSuccess ==
    (exactMatch.success /\ exactMatch.method = "css") =>
        LET n == Len(attempts)
            strategies == Strategies(info)
        IN /\ n >= 1
           /\ FirstFailed(strategies, n - 1)
           /\ attempts[n] = Attempt("css", strategies[n], TRUE, 0, 0)
           /\ exactMatch.keys = {"success", "method", "selector"}
           /\ exactMatch.selector = strategies[n]
           /\ clicks = <<"css">>

\* The case k = 2: two failed attempts, then success with the third entry,
\* returned by findElement
C1_Witness ==
    /\ pc = "done"
    /\ result.success /\ result.method = "css"
    /\ Len(attempts) = 3
    /\ ~attempts[1].ok /\ ~attempts[2].ok /\ attempts[3].ok
    /\ result.selector = Strategies(info)[3]
    /\ Strategies(info)[3] # Strategies(info)[1]

\* Position of the first CSS attempt made with selector s (0: none)
FirstCssAttempt(s) ==
    IF \E k \in 1..Len(CssAttempts) : CssAttempts[k].selector = s
    THEN CHOOSE k \in 1..Len(CssAttempts) :
            /\ CssAttempts[k].selector = s
            /\ \A m \in 1..(k - 1) : CssAttempts[m].selector # s
    ELSE 0

\* Position at which selector s is first stored in info.selectors
StoredIndex(s) ==
    CHOOSE k \in 1..Len(info.selectors) :
        /\ info.selectors[k] = s
        /\ \A m \in 1..(k - 1) : info.selectors[m] # s

StoredSelectors == {info.selectors[k] : k \in 1..Len(info.selectors)}

\* C2 as stated: of two stored candidate selectors, the one stored first
\* is the one attempted first.
C2_AttemptOrderIsStoredOrder ==
    \A a, b \in StoredSelectors :
        (StoredIndex(a) < StoredIndex(b) /\ FirstCssAttempt(b) # 0) =>
            (FirstCssAttempt(a) # 0 /\ FirstCssAttempt(a) < FirstCssAttempt(b))

\* Entries clickElement puts in front of the stored selectors:
\* structural semantic, attributeBased and relationship, the four
\* attribute selectors built from the descriptor's own fields, and
\* preferredSelector
HoistedCount ==
    LET n(c) == IF c THEN 1 ELSE 0
    IN n(info.structural.semantic # NoSel)
       + Len(info.structural.attributeBased)
       + n(info.structural.relationship # NoSel)
       + n(info.ariaLabel # Null) + n(info.role # Null)
       + n(info.placeholder # Null) + n(info.title # Null)
       + 1

HoistedSelectors ==
    {info.structural.semantic, info.structural.relationship, info.preferredSelector,
     Sel("attr", Null, "aria-label", info.ariaLabel, <<>>, 0),
     Sel("attr", Null, "role", info.role, <<>>, 0),
     Sel("attr", Null, "placeholder", info.placeholder, <<>>, 0),
     Sel("attr", Null, "title", info.title, <<>>, 0)}
    \cup {info.structural.attributeBased[k] : k \in 1..Len(info.structural.attributeBased)}

\* C2, amended: the CSS attempts follow the list clickElement assembles.
\* The hoisted entries come first; the stored selectors follow as one
\* block, in stored order; cssPath, #id and [name] come last.
C2_AttemptOrderIsAssembledOrder ==
    LET css == CssAttempts
        hoisted == HoistedCount
    IN
    \A k \in 1..Len(css) :
        LET s == css[k].selector
            m == k - hoisted
        IN /\ k <= hoisted => s \in HoistedSelectors
           /\ (m >= 1 /\ m <= Len(info.selectors)) => s = info.selectors[m]
           /\ m = Len(info.selectors) + 1 => s = info.cssPath
           /\ m > Len(info.selectors) + 1 =>
                s \in {Sel("id", Null, Null, info.id, <<>>, 0),
                       Sel("attr", Null, "name", info.name, <<>>, 0)}

\* Every CSS strategy of a descriptor with an aria-label, a title and a
\* text has been attempted: [aria-label] ran before the stored
\* text selector although it is stored after it
C2_Witness ==
    /\ info.ariaLabel # Null /\ info.title # Null
    /\ info.structural.textBased # NoSel
    /\ Len(CssAttempts) = Len(Strategies(info))
    /\ Len(CssAttempts) > HoistedCount + Len(info.selectors)

\* C3: an XPath is attempted only after every CSS strategy was attempted
\* and failed, and the fuzzy matcher runs only after clickElement returned
\* success:false, every block it enters having been attempted and failed.
C3_PhasesAreGated ==
    LET strategies == Strategies(info)
        allCssFailed == FirstFailed(strategies, Len(strategies))
    IN
    /\ \A k \in 1..Len(attempts) :
          attempts[k].method = "xpath" =>
              /\ k > Len(strategies)
              /\ allCssFailed
    /\ FuzzyRan =>
          /\ exactMatch = ClickFailure
          /\ clicks = <<>>
          /\ allCssFailed
          /\ \A j \in 1..Len(info.xpaths) :
                attempts[Len(strategies) + j]
                    = Attempt("xpath", info.xpaths[j], FALSE, 0, 0)
          /\ info.text # <<>> =>
                \E k \in 1..Len(attempts) : attempts[k].method = "text"
          /\ BoxUsable =>
                \E k \in 1..Len(attempts) : attempts[k].method = "coordinates"
          /\ \E k \in 1..Len(attempts) : attempts[k].method = "fingerprint"
          /\ \A k \in 1..Len(attempts) : ~attempts[k].ok \/ attempts[k].method = "fuzzy"

\* The fuzzy matcher has run after CSS, XPath, text, coordinates and
\* fingerprint all failed
C3_Witness ==
    /\ FuzzyResolved
    /\ dom # <<>>
    /\ info.text # <<>> /\ BoxUsable
    /\ Len(info.xpaths) >= 2

\* C4 as stated: after the last failed XPath the next attempt is the
\* coordinate click at the centre of the stored box, and after a failed
\* coordinate click the only further attempt is the fuzzy match.
C4_CoordinatesFollowXPath ==
    BoxUsable =>
        \A k \in 1..(Len(attempts) - 1) :
            /\ (attempts[k].method = "xpath" /\ attempts[k + 1].method # "xpath") =>
                  /\ attempts[k + 1].method = "coordinates"
                  /\ 2 * attempts[k + 1].x
                        = 2 * info.boundingBox.left + info.boundingBox.width
                  /\ 2 * attempts[k + 1].y
                        = 2 * info.boundingBox.top + info.boundingBox.height
            /\ (attempts[k].method = "coordinates" /\ ~attempts[k].ok) =>
                  attempts[k + 1].method = "fuzzy"

\* C4, amended: after the last failed XPath the text selector
\* tag:has-text(first 50 characters) is attempted when the descriptor has
\* a text; then the coordinate click at the centre of the stored box when
\* the box has a positive width; a failed coordinate click is followed by
\* the fingerprint match, and the fuzzy match follows only a failed
\* fingerprint match.
C4_TextThenCoordinatesThenFingerprint ==
    LET afterText == IF BoxUsable THEN "coordinates" ELSE "fingerprint"
        afterXPath == IF info.text # <<>> THEN "text" ELSE afterText
    IN \A k \in 1..Len(attempts) :
        LET a == attempts[k]
            last == k = Len(attempts)
        IN /\ (a.method = "xpath" /\ ~a.ok /\ ~last /\ attempts[k + 1].method # "xpath")
                => attempts[k + 1].method = afterXPath
           /\ a.method = "text" =>
                /\ a.selector = Sel("hastext", info.tag, Null, Null,
                                    Substring0(info.text, 50), 0)
                /\ (~a.ok /\ ~last) => attempts[k + 1].method = afterText
           /\ a.method = "coordinates" =>
                /\ BoxUsable
                /\ 2 * a.x = 2 * info.boundingBox.left + info.boundingBox.width
                /\ 2 * a.y = 2 * info.boundingBox.top + info.boundingBox.height
                /\ (~a.ok /\ ~last) => attempts[k + 1].method = "fingerprint"
           /\ (a.method = "fingerprint" /\ ~a.ok /\ ~last)
                => attempts[k + 1].method = "fuzzy"
           /\ a.method = "fuzzy" =>
                /\ k > 1
                /\ attempts[k - 1] = Attempt("fingerprint", NoSel, FALSE, 0, 0)
                /\ last

\* XPath, text, coordinates, fingerprint and fuzzy were attempted in turn
C4_Witness ==
    /\ FuzzyResolved
    /\ \E k \in 1..(Len(attempts) - 4) :
        /\ attempts[k].method = "xpath"
        /\ attempts[k + 1].method = "text"
        /\ attempts[k + 2].method = "coordinates"
        /\ attempts[k + 2].x = 140 /\ attempts[k + 2].y = 110
        /\ attempts[k + 3].method = "fingerprint"
        /\ attempts[k + 4].method = "fuzzy"

\* findElement returned without a success and without a fuzzy match
ChainFailed == pc = "done" /\ ~result.success /\ ~result.found

\* C5 as stated: the chain entered through findElement reports failure
\* only after every strategy, fuzzy matching included, was attempted and
\* failed, and the failure is {success:false, error:"All strategies failed"}.
C5_FailureResult ==
    ChainFailed =>
        /\ FuzzyRan
        /\ \A k \in 1..Len(attempts) : ~attempts[k].ok
        /\ {"success", "error"} \subseteq result.keys
        /\ result.success = FALSE
        /\ result.error = "All strategies failed"

\* C6 as stated: no failed attempt aborts the chain, and no exception
\* reaches the caller of findElement.
C6_NoExceptionPropagates == pc # "threw"

\* The scores the fuzzy matcher computed, and the largest of them
CandidateScores == {scoreCandidates[k].score : k \in 1..Len(scoreCandidates)}

MaxScore == CHOOSE m \in CandidateScores : \A v \in CandidateScores : v <= m

\* C8: the fuzzy matcher reports found exactly when there is a candidate
\* and the largest candidate score is strictly greater than 30.
C8_AcceptsAbove30 ==
    FuzzyResolved =>
        /\ Len(scoreCandidates) = Len(dom)
        /\ result.found <=> (dom # <<>> /\ MaxScore > 30)
        /\ result.found => result.score = MaxScore

\* A best score of exactly 30 was rejected
C8_Witness ==
    /\ FuzzyResolved
    /\ dom # <<>>
    /\ MaxScore = 30
    /\ ~result.found

\* C9: among the candidates sharing the largest score, the one selected is
\* the first in document order.
C9_FirstOfTiedIsSelected ==
    (FuzzyResolved /\ dom # <<>>) =>
        /\ best.element \in 1..Len(dom)
        /\ scoreCandidates[best.element].score = MaxScore
        /\ best.score = MaxScore
        /\ \A k \in 1..(best.element - 1) : scoreCandidates[k].score < MaxScore

\* Two different live elements tie above the threshold and the first wins
C9_Witness ==
    /\ FuzzyResolved
    /\ Len(dom) = 2
    /\ dom[1] # dom[2]
    /\ scoreCandidates[1].score = scoreCandidates[2].score
    /\ scoreCandidates[1].score > 30
    /\ result.found
    /\ best.element = 1

\* C10 as stated: on acceptance the action is performed on the accepted
\* live element and findElement returns {success:true, method:"fuzzy",
\* score} with the accepted candidate's score.
C10_FuzzyAcceptActs ==
    (FuzzyResolved /\ Accepts(best)) =>
        /\ {"success", "method", "score"} \subseteq result.keys
        /\ result.success
        /\ result.method = "fuzzy"
        /\ result.score = best.score
        /\ clicks # <<>>

\* ------------------------------------------------ the score on its own
\* The descriptors and live elements the score is evaluated on
ScoreScanElements ==
    [tag : {"button", "div", "input"}, id : {Null}, name : {Null},
     role : {Null, "button"}, ariaLabel : {Null, "Send"}, title : {Null},
     placeholder : {Null, "Email"}, testid : {Null},
     text : {<<>>, TSend, TLong}, box : {NoBox, ScanBox}]

ScoreDescriptors ==
    {extractElementInfo(el, 1, Null, TRUE) : el \in ScoreScanElements}

ScoreLiveElements ==
    [tag : {"button", "div", "input"}, id : {Null}, name : {Null},
     role : {Null, "button", "link"}, ariaLabel : {Null, "Send", "Close"},
     title : {Null}, placeholder : {Null, "Email"}, testid : {Null},
     text : {<<>>, TSend, TSendNow, TOther, TLongCut},
     box : {Box(TRUE, 100, 100, 80, 20), Box(TRUE, 120, 129, 80, 20),
            Box(TRUE, 80, 70, 80, 20), Box(TRUE, 400, 100, 80, 20)}]

InitScore ==
    /\ NoApi
    /\ info \in ScoreDescriptors
    /\ \E el \in ScoreLiveElements : dom = <<el>>
    /\ pc = "score"
    /\ i = 1
    /\ attempts = <<>>
    /\ clicks = <<>>
    /\ exactMatch = ClickFailure
    /\ scoreCandidates = <<>>
    /\ best = NoBest
    /\ result = NoResult
    /\ NoScan
    /\ NoExecution

\* scoreCandidates.map over the document
ScoreDocument ==
    /\ pc = "score"
    /\ scoreCandidates' = ScoreCandidates(info, dom)
    /\ pc' = "scored"
    /\ UNCHANGED <<apiVars, scanVars, execVars, info, i, attempts, clicks, exactMatch, dom, best, result>>

NextScore == ScoreDocument

SpecScore == InitScore /\ [][NextScore]_vars

Term(c, points) == IF c THEN points ELSE 0

ManhattanDistance(el) ==
    Abs(el.box.top - info.boundingBox.top) + Abs(el.box.left - info.boundingBox.left)

\* C7 as stated: the score is the sum of +10 tag equal, +20 text contains
\* the first 50 characters of the descriptor's text, +15 role equal,
\* +25 aria-label equal, +15 within 50px of the stored box, +20
\* placeholder equal.
C7_ScoreIsSumOfTerms ==
    pc = "scored" =>
        LET el == dom[1]
        IN scoreCandidates[1].score =
              Term(el.tag = info.tag, 10)
            + Term(info.text # <<>> /\ Includes(el.text, SubSeq(info.text, 1, Min(50, Len(info.text)))), 20)
            + Term(el.role = info.role, 15)
            + Term(el.ariaLabel = info.ariaLabel, 25)
            + Term(info.boundingBox.has /\ ManhattanDistance(el) <= 50, 15)
            + Term(info.placeholder # Null /\ PlaceholderProp(el) = info.placeholder, 20)

\* C7, amended: the role, aria-label, text and placeholder terms count only
\* when the descriptor has that attribute, and the position term only
\* when the descriptor has a bounding box and the Manhattan distance is
\* strictly less than 50.
C7_ScoreIsSumOfGuardedTerms ==
    pc = "scored" =>
        LET el == dom[1]
        IN scoreCandidates[1].score =
              Term(el.tag = info.tag, 10)
            + Term(info.text # <<>> /\ Includes(el.text, SubSeq(info.text, 1, Min(50, Len(info.text)))), 20)
            + Term(info.role # Null /\ el.role = info.role, 15)
            + Term(info.ariaLabel # Null /\ el.ariaLabel = info.ariaLabel, 25)
            + Term(info.boundingBox.has /\ ManhattanDistance(el) < 50, 15)
            + Term(info.placeholder # Null /\ PlaceholderProp(el) = info.placeholder, 20)

\* A candidate exactly 50px away, with no role and no aria-label like the
\* descriptor, and a text holding only the first 50 characters of the
\* descriptor's: scored 10 + 20
C7_Witness ==
    /\ pc = "scored"
    /\ info.boundingBox.has
    /\ ManhattanDistance(dom[1]) = 50
    /\ info.role = Null /\ dom[1].role = Null
    /\ info.ariaLabel = Null /\ dom[1].ariaLabel = Null
    /\ Len(info.text) > 50 /\ dom[1].text # info.text
    /\ scoreCandidates[1].score = 30

\* ================================================================ the scan
\* Most children a scanned <body> has
MaxChildren == 3

\* element.textContent of a parent: the texts of its children, in order
RECURSIVE TextContent(_)
TextContent(children) ==
    IF children = <<>> THEN <<>>
    ELSE Head(children).text \o TextContent(Tail(children))

\* A document as document.querySelectorAll("*") lists it: <html>, <body>,
\* then the children of <body>.  (<head> and what it holds carry no
\* attribute or text the scan reads and are left out.)
Document(bodyAria, children) ==
    <<Element("html", Null, Null, Null, Null, Null, Null, Null,
              TextContent(children), Box(TRUE, 0, 0, 1920, 1080)),
      Element("body", Null, Null, Null, bodyAria, Null, Null, Null,
              TextContent(children), Box(TRUE, 0, 0, 1920, 1080))>>
    \o children

\* getNthChild: one more than the earlier siblings with the same tag
getNthChild(doc, k) ==
    IF k <= 2 THEN 1
    ELSE 1 + Cardinality({j \in 3..(k - 1) : doc[j].tag = doc[k].tag})

\* element.parentElement.getAttribute("aria-label"); <html> has no parent
ParentAriaLabel(doc, k) ==
    IF k = 1 THEN Null ELSE IF k = 2 THEN doc[1].ariaLabel ELSE doc[2].ariaLabel

\* ---- how the document answers a CSS selector
\* getAttribute.  The elements of the model carry no `type` attribute:
\* their element.type is the default of the control.
AttributeOf(el, attr) ==
    CASE attr = "name" -> el.name
      [] attr = "role" -> el.role
      [] attr = "aria-label" -> el.ariaLabel
      [] attr = "title" -> el.title
      [] attr = "placeholder" -> el.placeholder
      [] attr = "data-testid" -> el.testid
      [] OTHER -> Null

\* :has-text() and :contains() are not CSS: querySelector throws on them
SelectorValid(sel) == sel.kind \notin {"hastext", "contains", "none"}

\* Element.matches for element k of the document
MatchesSelector(doc, k, sel) ==
    LET el == doc[k]
    IN CASE sel.kind = "tagattr" -> el.tag = sel.tag /\ AttributeOf(el, sel.attr) = sel.val
         [] sel.kind = "attr" -> AttributeOf(el, sel.attr) = sel.val
         [] sel.kind = "id" -> el.id = sel.val
         [] sel.kind = "cssid" -> el.tag = sel.tag /\ el.id = sel.val
         [] sel.kind = "rel" ->
                k > 2 /\ sel.attr = "body" /\ doc[2].ariaLabel = sel.val /\ el.tag = sel.tag
         [] sel.kind = "pos" -> el.tag = sel.tag /\ getNthChild(doc, k) = sel.n
         [] sel.kind = "csspath" ->
                el.tag = sel.tag /\ (sel.n = 1 \/ getNthChild(doc, k) = sel.n)
         [] sel.kind = "tag" -> el.tag = sel.tag
         [] sel.kind = "any" -> TRUE
         [] OTHER -> FALSE

\* ---- the first crawler class: no structural selectors, no fingerprint
BasicSelectors(el) ==
    LET opt(c, sel) == IF c THEN <<sel>> ELSE <<>>
        text == Substring0(TrimmedText(el), TextPrefixLen)
    IN  opt(el.id # Null, Sel("id", Null, Null, el.id, <<>>, 0))
        \o opt(NameProp(el) # Null, Sel("attr", Null, "name", NameProp(el), <<>>, 0))
        \o opt(el.testid # Null, Sel("attr", Null, "data-testid", el.testid, <<>>, 0))
        \o opt(el.ariaLabel # Null, Sel("attr", Null, "aria-label", el.ariaLabel, <<>>, 0))
        \o opt(el.role # Null, Sel("attr", Null, "role", el.role, <<>>, 0))
        \o opt(TypeProp(el) # Null, Sel("tagattr", el.tag, "type", TypeProp(el), <<>>, 0))
        \o opt(el.tag = "button" /\ text # <<>>,
               Sel("contains", el.tag, Null, Null, text, 0))

BasicXPath(el, nth) ==
    IF el.id # Null THEN Sel("xid", Null, Null, el.id, <<>>, 0)
    ELSE IF el.tag = "body" THEN Sel("xpos", "body", Null, Null, <<>>, 0)
    ELSE Sel("xpos", el.tag, Null, Null, <<>>, nth)

BasicCssPath(el, nth) ==
    IF el.id # Null THEN Sel("cssid", el.tag, Null, el.id, <<>>, 0)
    ELSE Sel("csspath", el.tag, Null, Null, <<>>, nth)

\* extractElementInfo of the first class.  The properties it does not set
\* (xpaths, structural, confidence, fingerprint) are undefined.
BasicElementInfo(el, nth) ==
    LET selectors == BasicSelectors(el)
        cssPath == BasicCssPath(el, nth)
    IN [tag |-> el.tag,
        text |-> Substring0(TrimmedText(el), TextSnippetLen),
        id |-> el.id,
        name |-> NameProp(el),
        type |-> TypeProp(el),
        placeholder |-> PlaceholderProp(el),
        ariaLabel |-> el.ariaLabel,
        role |-> el.role,
        title |-> el.title,
        selectors |-> selectors,
        xpaths |-> <<>>,
        xpath |-> BasicXPath(el, nth),
        cssPath |-> cssPath,
        preferredSelector |-> IF Len(selectors) > 0 THEN selectors[1] ELSE cssPath,
        structural |-> NoStructural,
        confidence |-> Null,
        fingerprint |-> <<>>,
        boundingBox |-> el.box]

\* ---- extractAllData, the function evaluated in the page
\* The crawler class that scans, and its useStructuralSelectors and
\* extractShadowDOM options (the first class has neither)
ScanOptions ==
    {[crawler |-> "basic", useStructuralSelectors |-> FALSE, extractShadowDOM |-> FALSE],
     [crawler |-> "enhanced", useStructuralSelectors |-> FALSE, extractShadowDOM |-> TRUE],
     [crawler |-> "enhanced", useStructuralSelectors |-> TRUE, extractShadowDOM |-> TRUE]}

\* extractElementInfo(el, options.useStructuralSelectors) for element k
ElementInfoAt(doc, k, opts) ==
    IF opts.crawler = "basic"
    THEN BasicElementInfo(doc[k], getNthChild(doc, k))
    ELSE extractElementInfo(doc[k], getNthChild(doc, k), ParentAriaLabel(doc, k),
                            opts.useStructuralSelectors)

\* document.querySelectorAll(selector): the positions of the matching
\* elements, in document order
QuerySelectorAll(doc, selector) ==
    SelectSeq([k \in 1..Len(doc) |-> k], LAMBDA k : MatchesSelector(doc, k, selector))

TagSelector(tag) == Sel("tag", tag, Null, Null, <<>>, 0)

RoleSelector(role) == Sel("attr", Null, "role", role, <<>>, 0)

InfosOf(doc, opts, positions) ==
    [m \in 1..Len(positions) |-> ElementInfoAt(doc, positions[m], opts)]

\* buttonSelectors.forEach: "button", then [role="button"]
ButtonsBucket(doc, opts) ==
    InfosOf(doc, opts,
            QuerySelectorAll(doc, TagSelector("button"))
            \o QuerySelectorAll(doc, RoleSelector("button")))

InputsBucket(doc, opts) ==
    InfosOf(doc, opts, QuerySelectorAll(doc, TagSelector("input")))

\* clickableSelectors.forEach: "button", [role="button"], [role="link"]
ClickablesBucket(doc, opts) ==
    InfosOf(doc, opts,
            QuerySelectorAll(doc, TagSelector("button"))
            \o QuerySelectorAll(doc, RoleSelector("button"))
            \o QuerySelectorAll(doc, RoleSelector("link")))

\* el.tabIndex >= 0: form controls are focusable by default
TabIndexNonNegative(el) == el.tag \in {"button", "input"}

InteractionScore(el) ==
    (IF el.role = "button" THEN 3 ELSE 0)
    + (IF el.tag = "button" THEN 3 ELSE 0)
    + (IF TabIndexNonNegative(el) THEN 1 ELSE 0)
    + (IF el.ariaLabel # Null THEN 1 ELSE 0)

\* element.shadowRoot.querySelectorAll("*").  In the documents of the
\* model the <send-box> elements are the shadow hosts: each has an open
\* shadow root holding one <button>Send</button>
ShadowHostTag == "send-box"

ShadowChildren(el) ==
    IF el.tag = ShadowHostTag
    THEN <<Element("button", Null, Null, Null, Null, Null, Null, Null, TSend, ScanBox)>>
    ELSE <<>>

\* extractElementInfo of the m-th element of the shadow root of doc[k],
\* with the shadowDOM property added.  The element's parentElement is
\* null, and getXPath, climbing to the shadow root, returns undefined for
\* it: the positional XPath is "undefined/tag[n]" (val = "undefined")
ShadowElementInfo(doc, k, m, opts) ==
    LET root == ShadowChildren(doc[k])
        nth == 1 + Cardinality({j \in 1..(m - 1) : root[j].tag = root[m].tag})
        e == extractElementInfo(root[m], nth, Null, opts.useStructuralSelectors)
        fix(x) == IF x.kind = "xpos" THEN [x EXCEPT !.val = "undefined"] ELSE x
    IN [e EXCEPT !.xpaths = [n \in 1..Len(e.xpaths) |-> fix(e.xpaths[n])],
                 !.xpath = fix(e.xpath)]
       @@ [shadowDOM |->
              [depth |-> 0,
               hostSelector |-> ElementInfoAt(doc, k, opts).preferredSelector]]

\* shadowElements: for each element of the document, in order, the
\* elements of its shadow root; empty unless options.extractShadowDOM
RECURSIVE ShadowElementsFrom(_, _, _)
ShadowElementsFrom(doc, k, opts) ==
    IF k > Len(doc) THEN <<>>
    ELSE [m \in 1..Len(ShadowChildren(doc[k])) |-> ShadowElementInfo(doc, k, m, opts)]
         \o ShadowElementsFrom(doc, k + 1, opts)

ShadowElements(doc, opts) ==
    IF opts.crawler = "enhanced" /\ opts.extractShadowDOM
    THEN ShadowElementsFrom(doc, 1, opts)
    ELSE <<>>

\* Every element of the document; the second class adds interactionScore
\* to each of them, and then pushes the shadow DOM descriptors as built
AllElementsBucket(doc, opts) ==
    LET all == QuerySelectorAll(doc, Sel("any", Null, Null, Null, <<>>, 0))
    IN [m \in 1..Len(all) |->
            IF opts.crawler = "basic"
            THEN ElementInfoAt(doc, all[m], opts)
            ELSE ElementInfoAt(doc, all[m], opts)
                 @@ [interactionScore |-> InteractionScore(doc[all[m]])]]
       \o ShadowElements(doc, opts)

\* The buckets before duplicates are removed.  The buckets for tags the
\* documents of the model do not hold (links, forms, headings, images,
\* videos, iframes, textareas, selects) stay empty and are left out, and so
\* is structuralMap, which the duplicate removal skips.
ExtractedBuckets(doc, opts) ==
    [buttons |-> ButtonsBucket(doc, opts),
     inputs |-> InputsBucket(doc, opts),
     clickables |-> ClickablesBucket(doc, opts),
     allElements |-> AllElementsBucket(doc, opts)]

\* ---- Remove duplicates
\* A key is a string; `by` records which property gave it (a fingerprint
\* starts with the tag name, an XPath with "/", a CSS path with "html" or
\* the tag, so keys taken from different properties never coincide).
Key(by, fingerprint, path) == [by |-> by, fingerprint |-> fingerprint, path |-> path]

\* const id = item.xpath || item.cssPath
BasicDedupKey(item) ==
    IF item.xpath # NoSel THEN Key("xpath", <<>>, item.xpath)
    ELSE Key("cssPath", <<>>, item.cssPath)

\* const id = item.fingerprint || item.xpath || item.cssPath
DedupKey(item) ==
    IF item.fingerprint # <<>> THEN Key("fingerprint", item.fingerprint, NoSel)
    ELSE IF item.xpath # NoSel THEN Key("xpath", <<>>, item.xpath)
    ELSE Key("cssPath", <<>>, item.cssPath)

KeyOf(opts, item) ==
    IF opts.crawler = "basic" THEN BasicDedupKey(item) ELSE DedupKey(item)

\* Variant of SeenAfterDrop: dropping an item also forgets its key
SeenAfterDropForgets(seen, id) == seen \ {id}

\* if (seen.has(id)) return false: the item goes and `seen` stays
SeenAfterDrop(seen, id) == seen

\* Variant of SeenAfterKeep: a kept item's key is not remembered
SeenAfterKeepForgets(seen, id) == seen

\* seen.add(id); return true
SeenAfterKeep(seen, id) == seen \cup {id}

\* results[key].filter((item) => ...) with its `seen` set
RECURSIVE FilterSeen(_, _, _)
FilterSeen(items, seen, opts) ==
    IF items = <<>> THEN <<>>
    ELSE LET id == KeyOf(opts, Head(items))
         IN IF id \in seen
            THEN FilterSeen(Tail(items), SeenAfterDrop(seen, id), opts)
            ELSE <<Head(items)>> \o FilterSeen(Tail(items), SeenAfterKeep(seen, id), opts)

RemoveDuplicates(buckets, opts) ==
    [key \in DOMAIN buckets |-> FilterSeen(buckets[key], {}, opts)]

\* ---- inputs of the scan
RandomValue == "3f9a0c1e-77ab-4d21-9e0f"

\* The children a scanned <body> can have: a bare <div>, a button with a
\* text, a labelled button with a role, an input with a placeholder, a
\* <div> whose only attribute is a generated data-testid, and a button
\* with a generated id
ScanPool ==
    {Element("div", Null, Null, Null, Null, Null, Null, Null, <<>>, ScanBox),
     Element("button", Null, Null, Null, Null, Null, Null, Null, TSend, ScanBox),
     Element("button", Null, Null, "button", "Send", Null, Null, Null, TSend, ScanBox),
     Element("input", Null, Null, Null, Null, Null, "Email", Null, <<>>, ScanBox),
     Element("div", Null, Null, Null, Null, Null, Null, RandomValue, <<>>, ScanBox),
     Element("button", RandomValue, Null, Null, Null, Null, Null, Null, TSend, ScanBox)}

ScanDocuments ==
    {Document(bodyAria, children) :
        bodyAria \in ParentArias,
        children \in UNION {[1..n -> ScanPool] : n \in 0..MaxChildren}}

InitScan ==
    /\ NoApi
    /\ dom \in ScanDocuments
    /\ options \in ScanOptions
    /\ results = Null
    /\ pc = "scan"
    /\ info = NoResult
    /\ i = 1
    /\ attempts = <<>>
    /\ clicks = <<>>
    /\ exactMatch = NoResult
    /\ scoreCandidates = <<>>
    /\ best = NoBest
    /\ result = NoResult
    /\ NoExecution

\* The queries of extractAllData fill the buckets
ExtractElements ==
    /\ pc = "scan"
    /\ results' = ExtractedBuckets(dom, options)
    /\ pc' = "extracted"
    /\ UNCHANGED <<apiVars, execVars, options, info, i, attempts, clicks, exactMatch, dom,
                   scoreCandidates, best, result>>

\* Object.keys(results).forEach: every bucket is filtered, and the
\* evaluated function returns
ReturnDeduplicated ==
    /\ pc = "extracted"
    /\ results' = RemoveDuplicates(results, options)
    /\ pc' = "deduped"
    /\ UNCHANGED <<apiVars, execVars, options, info, i, attempts, clicks, exactMatch, dom,
                   scoreCandidates, best, result>>

NextScan ==
    \/ ExtractElements
    \/ ReturnDeduplicated

SpecScan == InitScan /\ [][NextScan]_vars

\* ---- the scan of a document with shadow roots
ShadowScanOptions ==
    {[crawler |-> "enhanced", useStructuralSelectors |-> s, extractShadowDOM |-> x] :
        s \in BOOLEAN, x \in BOOLEAN}

ShadowScanPool ==
    {Element(ShadowHostTag, Null, Null, Null, Null, Null, Null, Null, <<>>, ScanBox),
     Element("button", Null, Null, Null, Null, Null, Null, Null, TSend, ScanBox),
     Element("button", Null, Null, "button", "Send", Null, Null, Null, TSend, ScanBox),
     Element("div", Null, Null, Null, Null, Null, Null, Null, <<>>, ScanBox)}

ShadowScanDocuments ==
    {Document(Null, children) :
        children \in [{1} -> ShadowScanPool] \cup [{1, 2} -> ShadowScanPool]}

InitShadowScan ==
    /\ NoApi
    /\ dom \in ShadowScanDocuments
    /\ options \in ShadowScanOptions
    /\ results = Null
    /\ pc = "scan"
    /\ info = NoResult
    /\ i = 1
    /\ attempts = <<>>
    /\ clicks = <<>>
    /\ exactMatch = NoResult
    /\ scoreCandidates = <<>>
    /\ best = NoBest
    /\ result = NoResult
    /\ NoExecution

SpecShadowScan == InitShadowScan /\ [][NextScan]_vars

\* ---- claims about the scan
Scanned == pc = "deduped"

\* The key as the claims read it: the fingerprint, else the xpath, else
\* the cssPath
ClaimedKey(item) ==
    IF item.fingerprint # <<>> THEN <<"fingerprint", item.fingerprint, NoSel>>
    ELSE IF item.xpath # NoSel THEN <<"xpath", <<>>, item.xpath>>
    ELSE <<"cssPath", <<>>, item.cssPath>>

\* The positions of `input` whose key did not occur at an earlier position
FirstOccurrences(input) ==
    {k \in 1..Len(input) :
        \A j \in 1..(k - 1) : ClaimedKey(input[j]) # ClaimedKey(input[k])}

\* C11: in every bucket of a scan the deduplicated list is the input list
\* without the items whose key (fingerprint, else xpath, else cssPath)
\* occurred earlier: the kept items are the first occurrences, in input
\* order, and no two of them share a key.
C11_DedupKeepsFirstOccurrences ==
    Scanned =>
        LET input == ExtractedBuckets(dom, options)
        IN \A key \in DOMAIN results :
            LET kept == FirstOccurrences(input[key])
                out == results[key]
            IN /\ Len(out) = Cardinality(kept)
               /\ \A k \in kept :
                    out[Cardinality({j \in kept : j <= k})] = input[key][k]
               /\ \A a, b \in 1..Len(out) :
                    a # b => ClaimedKey(out[a]) # ClaimedKey(out[b])

\* A bucket that lost a duplicate and kept two items with different keys
C11_Witness ==
    /\ Scanned
    /\ \E key \in DOMAIN results :
        /\ Len(results[key]) >= 2
        /\ Len(results[key]) < Len(ExtractedBuckets(dom, options)[key])

\* C12: removing duplicates is idempotent: filtering the buckets a scan
\* returned a second time leaves every bucket as it is.
C12_DedupIsIdempotent ==
    Scanned => RemoveDuplicates(results, options) = results

\* A bucket in which one key occurred three times before the filter
C12_Witness ==
    /\ Scanned
    /\ \E key \in DOMAIN results :
        LET input == ExtractedBuckets(dom, options)[key]
        IN \E a, b, c \in 1..Len(input) :
            /\ a < b /\ b < c
            /\ ClaimedKey(input[a]) = ClaimedKey(input[b])
            /\ ClaimedKey(input[b]) = ClaimedKey(input[c])

\* The element has none of the attributes the fingerprint reads besides
\* its tag
Undistinguished(item) ==
    /\ item.role = Null
    /\ item.ariaLabel = Null
    /\ item.placeholder = Null
    /\ item.type = Null
    /\ item.title = Null

\* C13: an element with no role, aria-label, placeholder, type or title
\* has an empty fingerprint and is keyed by its xpath, so two such
\* elements at different positions of the document are both kept in a
\* bucket of the second class's scan.
C13_UndistinguishedKeyedByXPath ==
    (Scanned /\ options.crawler = "enhanced") =>
        LET input == ExtractedBuckets(dom, options).allElements
            bare == {k \in 1..Len(input) : Undistinguished(input[k])}
            kept(k) == \E m \in 1..Len(results.allElements) :
                            results.allElements[m] = input[k]
        IN /\ \A k \in bare :
                /\ input[k].fingerprint = <<>>
                /\ DedupKey(input[k]) = Key("xpath", <<>>, input[k].xpath)
           /\ \A a, b \in bare : a # b => (kept(a) /\ kept(b))

\* The second class has built a descriptor for every element of the
\* document; descriptor k is the one of dom[k]
DescriptorsBuilt == pc # "scan" /\ options.crawler = "enhanced"

EveryDescriptor == ExtractedBuckets(dom, options).allElements

\* C14 as stated: for every element of the scanned document, <html> and
\* <body> included, in structural and non-structural mode, the
\* descriptor's list of candidate selectors is non-empty and so is the
\* list of CSS strategies clickElement assembles from it.
C14_SelectorsNeverEmpty ==
    DescriptorsBuilt =>
        \A k \in 1..Len(dom) :
            /\ Len(EveryDescriptor[k].selectors) > 0
            /\ Len(Strategies(EveryDescriptor[k])) > 0

\* None of the attributes getUniqueSelector turns into a selector
Unattributed(el) ==
    /\ el.id = Null \/ IsRandomId(el.id)
    /\ NameProp(el) = Null
    /\ el.testid = Null
    /\ el.ariaLabel = Null
    /\ el.title = Null
    /\ el.role = Null
    /\ TypeProp(el) = Null
    /\ PlaceholderProp(el) = Null

\* C14, amended: the list of CSS strategies clickElement assembles is
\* never empty, because cssPath and preferredSelector are always in it.
\* The descriptor's `selectors` list is empty exactly for an element
\* without id (or with a generated one), name, data-*, aria-label,
\* title, role, type and placeholder that is scanned in non-structural
\* mode, or that is a <body> without a text shorter than 100 characters
\* in structural mode; preferredSelector is then the cssPath.
C14_StrategiesNeverEmpty ==
    DescriptorsBuilt =>
        \A k \in 1..Len(dom) :
            LET item == EveryDescriptor[k]
                strategies == Strategies(item)
            IN /\ Len(strategies) > 0
               /\ item.cssPath # NoSel
               /\ \E j \in 1..Len(strategies) : strategies[j] = item.cssPath
               /\ \E j \in 1..Len(strategies) : strategies[j] = item.preferredSelector
               /\ (item.selectors = <<>>) <=>
                    /\ Unattributed(dom[k])
                    /\ \/ ~options.useStructuralSelectors
                       \/ dom[k].tag = "body" /\ StructuralTextBased(dom[k]) = NoSel
               /\ item.selectors = <<>> => item.preferredSelector = item.cssPath

\* A structural scan of a document whose <body> has no attribute and no
\* text: its descriptor has no candidate selector, and clickElement
\* still has its cssPath to try
C14_Witness ==
    /\ DescriptorsBuilt
    /\ options.useStructuralSelectors
    /\ Len(dom) > 2
    /\ EveryDescriptor[2].selectors = <<>>
    /\ Strategies(EveryDescriptor[2]) = <<EveryDescriptor[2].cssPath, EveryDescriptor[2].cssPath>>

\* The selector is built from an id or a data-* value that matches the
\* random-hash pattern
FromRandomValue(sel) ==
    /\ sel.kind \in {"id", "cssid"} \/ sel.attr = "data-testid"
    /\ IsRandomId(sel.val)

\* C15: the confidence of a descriptor is high if it has a semantic
\* compound selector; otherwise medium if and only if it has an
\* attribute-based selector whose value does not match the random-hash
\* pattern; otherwise low.
C15_ConfidenceRule ==
    DescriptorsBuilt =>
        \A k \in 1..Len(dom) :
            LET item == EveryDescriptor[k]
                attributeBased == item.structural.attributeBased
            IN item.confidence =
                IF item.structural.semantic # NoSel THEN "high"
                ELSE IF \E j \in 1..Len(attributeBased) :
                            ~FromRandomValue(attributeBased[j])
                     THEN "medium"
                     ELSE "low"

\* C16: no selector built from an id or data-* value that matches the
\* random-hash pattern is stored in a descriptor's candidate selectors
\* or in structural.attributeBased, and clickElement attempts none.
C16_NoRandomValueSelector ==
    DescriptorsBuilt =>
        \A k \in 1..Len(dom) :
            LET item == EveryDescriptor[k]
                strategies == Strategies(item)
            IN /\ \A j \in 1..Len(item.selectors) : ~FromRandomValue(item.selectors[j])
               /\ \A j \in 1..Len(item.structural.attributeBased) :
                    ~FromRandomValue(item.structural.attributeBased[j])
               /\ \A j \in 1..Len(strategies) : ~FromRandomValue(strategies[j])

\* ========================================================== the round trip
\* clickElement called with a descriptor on the document it was built from
\* page.click needs a box to click into
Clickable(el) == el.box.has /\ el.box.width > 0

\* waitForSelector(selector) then page.click(selector): the first match in
\* document order is clicked
SelectorClicks(doc, sel) ==
    /\ SelectorValid(sel)
    /\ \E k \in 1..Len(doc) :
        /\ MatchesSelector(doc, k, sel)
        /\ \A j \in 1..(k - 1) : ~MatchesSelector(doc, j, sel)
        /\ Clickable(doc[k])

InitRoundTrip ==
    /\ NoApi
    /\ dom \in ScanDocuments
    /\ options \in {o \in ScanOptions : o.crawler = "enhanced"}
    /\ \E k \in 1..Len(dom) : info = ElementInfoAt(dom, k, options)
    /\ results = Null
    /\ pc = "css"
    /\ i = 1
    /\ attempts = <<>>
    /\ clicks = <<>>
    /\ exactMatch = NoResult
    /\ scoreCandidates = <<>>
    /\ best = NoBest
    /\ result = NoResult
    /\ NoExecution

\* One iteration of `for (const selector of strategies)` on the scanned
\* document
RoundTripCss ==
    /\ pc = "css"
    /\ LET selector == Strategies(info)[i]
           ok == SelectorClicks(dom, selector)
       IN /\ attempts' = Append(attempts, Attempt("css", selector, ok, 0, 0))
          /\ IF ok
             THEN /\ clicks' = Append(clicks, "css")
                  /\ ClickReturns(CssSuccess(selector))
             ELSE /\ clicks' = clicks
                  /\ IF NextIndex(i) <= Len(Strategies(info))
                     THEN /\ i' = NextIndex(i)
                          /\ UNCHANGED <<pc, exactMatch>>
                     ELSE FallThrough("css")
    /\ UNCHANGED <<apiVars, scanVars, execVars, info, dom, scoreCandidates, best, result>>

NextRoundTrip ==
    \/ RoundTripCss
    \/ ReturnExact

SpecRoundTrip == InitRoundTrip /\ [][NextRoundTrip]_vars

\* The descriptor's own cssPath matches on the unchanged document, so the
\* CSS loop always ends in a click and no later block is entered
RoundTripStaysInCss == pc \in {"css", "returned", "done"}

\* C17: with the DOM unchanged since the descriptor was built,
\* clickElement succeeds on the first strategy it attempts, with no
\* failed attempt, and reports the method "css".
C17_RoundTripFirstAttempt ==
    pc \in {"returned", "done"} =>
        /\ exactMatch.success
        /\ exactMatch.method = "css"
        /\ Len(attempts) = 1

\* ======================================================= executeAutomation
\* Longest plan
MaxSteps == 2

\* `elem_${index}`
\* ---- categorizeElement, getSupportedActions
\* A category is a string; it is kept as its words, the parts between
\* the underscores ("input_text" is <<"input", "text">>), so that
\* startsWith("input_") is a test on the first word
Category(words) == words

\* element.interactionScore > 2; undefined > 2 is false
ScoresAbove2(element) ==
    "interactionScore" \in DOMAIN element /\ element.interactionScore > 2

\* Variant of categorizeElement: every <input> is categorised by its type
categorizeElementByType(element) ==
    IF element.tag = "button" \/ element.role = "button" THEN Category(<<"button">>)
    ELSE IF element.tag = "input" /\ element.type = "submit"
         THEN Category(<<"submit", "button">>)
    ELSE IF element.tag = "input" THEN Category(<<"input", element.type>>)
    ELSE Category(<<"generic">>)

\* The rules of categorizeElement, first match wins.  A descriptor has no
\* onclick property, so element.onclick is undefined.
categorizeElement(element) ==
    LET tag == element.tag
        role == element.role
    IN IF tag = "button" \/ role = "button" THEN Category(<<"button">>)
       ELSE IF tag = "input" /\ element.type = "text" THEN Category(<<"input", "text">>)
       ELSE IF tag = "input" /\ element.type = "password"
            THEN Category(<<"input", "password">>)
       ELSE IF tag = "input" /\ element.type = "email" THEN Category(<<"input", "email">>)
       ELSE IF tag = "input" /\ element.type = "submit"
            THEN Category(<<"submit", "button">>)
       ELSE IF tag = "textarea" THEN Category(<<"textarea">>)
       ELSE IF tag = "select" THEN Category(<<"dropdown">>)
       ELSE IF tag = "a" THEN Category(<<"link">>)
       ELSE IF tag = "form" THEN Category(<<"form">>)
       ELSE IF tag \in {"h1", "h2", "h3", "h4", "h5", "h6"} THEN Category(<<"heading">>)
       ELSE IF tag = "img" THEN Category(<<"image">>)
       ELSE IF role = "checkbox" THEN Category(<<"checkbox">>)
       ELSE IF role = "radio" THEN Category(<<"radio">>)
       ELSE IF ScoresAbove2(element) THEN Category(<<"clickable">>)
       ELSE Category(<<"generic">>)

\* category.startsWith("input_")
StartsWithInput(category) == Len(category) > 1 /\ category[1] = "input"

\* getSupportedActions: the actions pushed, in order
getSupportedActions(element) ==
    LET category == categorizeElement(element)
    IN (IF category \in {Category(<<"button">>), Category(<<"link">>),
                         Category(<<"clickable">>), Category(<<"submit", "button">>)}
        THEN <<"click", "hover">> ELSE <<>>)
       \o (IF StartsWithInput(category) \/ category = Category(<<"textarea">>)
           THEN <<"type", "clear", "fill">> ELSE <<>>)
       \o (IF category = Category(<<"dropdown">>) THEN <<"select">> ELSE <<>>)
       \o (IF category \in {Category(<<"checkbox">>), Category(<<"radio">>)}
           THEN <<"check", "uncheck">> ELSE <<>>)

ElemId(index) == <<"elem", index>>

\* enrichElementsForAutomation: entry k keeps the descriptor (`info`) and
\* adds automationMeta
enrichElementsForAutomation(allElements) ==
    [k \in 1..Len(allElements) |->
        [info |-> allElements[k],
         automationMeta |-> [id |-> ElemId(k - 1),
                             category |-> categorizeElement(allElements[k]),
                             supportedActions |-> getSupportedActions(allElements[k]),
                             primarySelector |-> allElements[k].preferredSelector]]]

\* elements.find((e) => e.automationMeta.id === step.elementId): the
\* position of the first such entry, 0 for undefined
FindElementEntry(store, elementId) ==
    LET found == {k \in 1..Len(store) : store[k].automationMeta.id = elementId}
    IN IF found = {} THEN 0 ELSE CHOOSE k \in found : \A m \in found : k <= m

\* page.$(selector) finds an element
SelectorLocates(doc, sel) ==
    /\ SelectorValid(sel)
    /\ \E k \in 1..Len(doc) : MatchesSelector(doc, k, sel)

\* What the call of a step's `switch` can do on the live document: Null
\* is "resolved", anything else the error thrown.  page.click and
\* page.type throw when the selector is invalid or matches nothing, and
\* can throw on the element they found; page.select throws on an element
\* that is not a <select>, and the documents hold none;
\* page.waitForTimeout resolves; any other action has no case.
ActionOutcomes(action, selector, doc) ==
    CASE action \in {"click", "type"} ->
            IF ~SelectorLocates(doc, selector) THEN {"SelectorFailed"}
            ELSE IF SelectorClicks(doc, selector) THEN {Null, "ActionRejected"}
            ELSE {"ActionRejected"}
      [] action = "select" ->
            IF SelectorLocates(doc, selector) THEN {"ActionRejected"}
            ELSE {"SelectorFailed"}
      [] OTHER -> {Null}

\* The actions whose case calls the page with the element's selector
Interacts(action) == action \in {"click", "type", "select"}

StepSuccess(step) ==
    [step |-> step.stepNumber, action |-> step.action, status |-> "success",
     error |-> Null]

\* error: error.message, by kind
StepFailed(step, error) ==
    [step |-> step.stepNumber, action |-> step.action, status |-> "failed",
     error |-> error]

StepSimulated(step) ==
    [step |-> step.stepNumber, action |-> step.action, status |-> "simulated",
     error |-> Null]

\* Variant of PushResult: the entry is put in front of the list
PushResultFront(list, entry) == <<entry>> \o list

\* results.push(entry)
PushResult(list, entry) == Append(list, entry)

\* Variant of Rethrown: the catch of a step rethrows like the outer one
RethrownAlways(block) == TRUE

\* Whether a catch block rethrows what it caught: the catch of a step
\* records a failed entry, the outer catch closes the browser and rethrows
Rethrown(block) == block # "step"

\* ---- inputs
ExecScannedDocuments ==
    {Document(Null, <<Element("button", Null, Null, "button", "Send", Null, Null,
                              Null, TSend, ScanBox)>>),
     Document(Null, <<Element("button", Null, Null, Null, Null, Null, Null,
                              Null, TSend, ScanBox)>>)}

\* The options /api/extract constructs its crawler with
ExtractOptions ==
    [crawler |-> "enhanced", useStructuralSelectors |-> TRUE, extractShadowDOM |-> TRUE]

\* database.elements.get(pageId): the enriched allElements of a scan
ElementStores ==
    {enrichElementsForAutomation(
        RemoveDuplicates(ExtractedBuckets(doc, ExtractOptions),
                         ExtractOptions).allElements) :
        doc \in ExecScannedDocuments}

\* The page at execution time: as scanned, or without the button
ExecLiveDocuments == ExecScannedDocuments \cup {Document(Null, <<>>)}

StepChoices ==
    [action : {"click", "type", "select", "wait", "verify"},
     elementId : {ElemId(2), ElemId(9)}]

Plans ==
    UNION {{[k \in 1..n |-> [stepNumber |-> k, action |-> body[k].action,
                             elementId |-> body[k].elementId]] :
                body \in [1..n -> StepChoices]} : n \in 0..MaxSteps}

InitExec ==
    /\ NoApi
    /\ plan \in Plans
    /\ elements \in ElementStores
    /\ dom \in ExecLiveDocuments
    /\ stepResults = <<>>
    /\ pc = "call"
    /\ i = 1
    /\ clicks = <<>>
    /\ info = NoResult
    /\ attempts = <<>>
    /\ exactMatch = NoResult
    /\ scoreCandidates = <<>>
    /\ best = NoBest
    /\ result = NoResult
    /\ NoScan

findVars == <<info, attempts, exactMatch, scoreCandidates, best, result>>

\* if (dryRun) return {success: true, dryRun: true, steps: plan.steps.map(...)}
DryRun ==
    /\ pc = "call"
    /\ stepResults' = [k \in 1..Len(plan) |-> StepSimulated(plan[k])]
    /\ pc' = "simulated"
    /\ UNCHANGED <<apiVars, scanVars, findVars, plan, elements, dom, i, clicks>>

\* puppeteer.launch and browser.newPage, outside every try
Launch ==
    /\ pc = "call"
    /\ \E ok \in BOOLEAN :
        pc' = IF ok THEN "goto" ELSE "threw"
    /\ UNCHANGED <<apiVars, scanVars, findVars, plan, elements, stepResults, dom, i, clicks>>

\* page.goto(url) and the fixed wait, inside the outer try
Goto ==
    /\ pc = "goto"
    /\ \E ok \in BOOLEAN :
        pc' = IF ~ok /\ Rethrown("goto") THEN "threw"
              ELSE IF Len(plan) = 0 THEN "screenshot" ELSE "step"
    /\ UNCHANGED <<apiVars, scanVars, findVars, plan, elements, stepResults, dom, i, clicks>>

\* Variant of StoreAfterFind: the entry found is taken out of the list
StoreAfterFindTakes(store, elementId) ==
    SelectSeq(store, LAMBDA e : e.automationMeta.id # elementId)

\* The stored list after elements.find(...) and the reads of the entry
\* found (automationMeta.primarySelector): nothing is assigned or removed
StoreAfterFind(store, elementId) == store

\* One iteration of `for (const step of plan.steps)`: its try and catch.
\* page.waitForTimeout (the `wait` case and step.waitAfter) is a timer that
\* resolves whatever its argument.
Step ==
    /\ pc = "step"
    /\ LET step == plan[i]
           k == FindElementEntry(elements, step.elementId)
           next == IF i = Len(plan) THEN "screenshot" ELSE "step"
       IN IF k = 0
          THEN \* throw new Error(`Element ${step.elementId} not found`)
               /\ clicks' = clicks
               /\ IF Rethrown("step")
                  THEN pc' = "threw" /\ UNCHANGED <<stepResults, i>>
                  ELSE /\ stepResults' = PushResult(stepResults,
                                            StepFailed(step, "ElementNotInStore"))
                       /\ pc' = next
                       /\ i' = i + 1
          ELSE \E error \in ActionOutcomes(step.action,
                                           elements[k].automationMeta.primarySelector, dom) :
                /\ clicks' = IF error = Null /\ Interacts(step.action)
                             THEN Append(clicks, [step |-> i, action |-> step.action])
                             ELSE clicks
                /\ IF error # Null /\ Rethrown("step")
                   THEN pc' = "threw" /\ UNCHANGED <<stepResults, i>>
                   ELSE /\ stepResults' = PushResult(stepResults,
                                IF error = Null THEN StepSuccess(step)
                                ELSE StepFailed(step, error))
                        /\ pc' = next
                        /\ i' = i + 1
    /\ elements' = StoreAfterFind(elements, plan[i].elementId)
    /\ UNCHANGED <<apiVars, scanVars, findVars, plan, dom>>

\* page.screenshot, browser.close, return {success: true, steps: results}
Screenshot ==
    /\ pc = "screenshot"
    /\ \E ok \in BOOLEAN :
        pc' = IF ~ok /\ Rethrown("screenshot") THEN "threw" ELSE "done"
    /\ UNCHANGED <<apiVars, scanVars, findVars, plan, elements, stepResults, dom, i, clicks>>

NextExec ==
    \/ DryRun
    \/ Launch
    \/ Goto
    \/ Step
    \/ Screenshot

SpecExec == InitExec /\ [][NextExec]_vars

\* ---- claims about executeAutomation
\* C18: a run that is not a dry run processes the steps in plan order, a
\* failed step does not keep the later steps from running, and the
\* returned list has exactly one entry per step, in plan order, each
\* with the status success or failed.
C18_OneEntryPerStepInOrder ==
    /\ pc = "step" => Len(stepResults) = i - 1
    /\ pc \in {"step", "screenshot", "done"} =>
        \A k \in 1..Len(stepResults) :
            /\ k <= Len(plan)
            /\ stepResults[k].step = plan[k].stepNumber
            /\ stepResults[k].action = plan[k].action
            /\ stepResults[k].status \in {"success", "failed"}
    /\ pc \in {"screenshot", "done"} => Len(stepResults) = Len(plan)

\* A returned list whose first step failed and whose second succeeded
C18_Witness ==
    /\ pc = "done"
    /\ Len(plan) = 2
    /\ stepResults[1].status = "failed"
    /\ stepResults[2].status = "success"
    /\ clicks # <<>>

\* C19 as stated: executing a plan never fails as a whole: whatever the
\* plan, the element store and the behaviour of the page (a failed
\* navigation or screenshot included), executeAutomation does not throw.
C19_NeverThrows == pc # "threw"

\* C19, amended: no failure of a step makes executeAutomation throw: each
\* iteration of the step loop ends with one more entry in the list and
\* control in the loop or at the screenshot.  executeAutomation throws
\* only when the browser launch, the navigation or the screenshot fails.
C19_OnlyOuterFailuresThrow ==
    [][/\ pc' = "threw" => pc \in {"call", "goto", "screenshot"}
       /\ pc = "step" =>
            /\ pc' \in {"step", "screenshot"}
            /\ Len(stepResults') = Len(stepResults) + 1]_vars

\* The screenshot failed after a plan whose steps all failed: the list
\* was complete and executeAutomation threw
C19_Witness ==
    /\ pc = "threw"
    /\ Len(plan) > 0
    /\ Len(stepResults) = Len(plan)
    /\ \A k \in 1..Len(stepResults) : stepResults[k].status = "failed"

\* Some candidate selector of the descriptor, or its cssPath, matches an
\* element of the document
PresentOnPage(descriptor, doc) ==
    \E sel \in {descriptor.selectors[j] : j \in 1..Len(descriptor.selectors)}
               \cup {descriptor.cssPath} :
        /\ SelectorValid(sel)
        /\ \E k \in 1..Len(doc) : MatchesSelector(doc, k, sel)

\* C20: a verify step interacts with nothing, is recorded as failed
\* whenever its target is absent from the live page under its candidate
\* selectors, and is recorded as success only if the element exists.
C20_VerifyChecksExistence ==
    pc \in {"step", "screenshot", "done"} =>
        \A k \in 1..Len(stepResults) :
            plan[k].action = "verify" =>
                LET e == FindElementEntry(elements, plan[k].elementId)
                IN /\ \A c \in 1..Len(clicks) : clicks[c].step # k
                   /\ stepResults[k].status = "success" =>
                        (e # 0 /\ PresentOnPage(elements[e].info, dom))

\* C21: a step with the action wait bypasses element targeting: it only
\* suspends, and is recorded as success whether or not its elementId
\* resolves to a stored element.
C21_WaitAlwaysSucceeds ==
    pc \in {"step", "screenshot", "done"} =>
        \A k \in 1..Len(stepResults) :
            plan[k].action = "wait" => stepResults[k].status = "success"

\* C22: when the primary selector of a step fails on the live page but
\* another candidate selector of the same descriptor locates the
\* element, executeAutomation performs the action through it; a step is
\* recorded as failed only if no strategy locates the element or the
\* action is rejected.
C22_StepFallsBack ==
    pc \in {"step", "screenshot", "done"} =>
        \A k \in 1..Len(stepResults) :
            (Interacts(plan[k].action) /\ stepResults[k].status = "failed") =>
                LET e == FindElementEntry(elements, plan[k].elementId)
                IN \/ stepResults[k].error = "ActionRejected"
                   \/ e = 0
                   \/ ~PresentOnPage(elements[e].info, dom)

\* ===================================================== the changed page
\* findElement called with a stored descriptor on a given live document:
\* what each strategy finds is decided by the document
\* Variant of XPathFirst: the tag name of the expression is not compared
XPathFirstAnyTag(doc, xpath) ==
    LET found ==
            {k \in 1..Len(doc) :
                CASE xpath.kind = "xaria" -> doc[k].ariaLabel = xpath.val
                  [] xpath.kind = "xtext" -> k > 2 /\ Includes(doc[k].text, xpath.txt)
                  [] xpath.kind = "xid" -> doc[k].id = xpath.val
                  [] xpath.kind = "xpos" ->
                        /\ xpath.val = Null
                        /\ k > 2 => getNthChild(doc, k) = xpath.n
                  [] OTHER -> FALSE}
    IN IF found = {} THEN 0 ELSE CHOOSE k \in found : \A m \in found : k <= m

\* page.$x(xpath): the position of the first node of the result, 0 for none
XPathFirst(doc, xpath) ==
    LET found ==
            {k \in 1..Len(doc) :
                CASE xpath.kind = "xaria" -> doc[k].ariaLabel = xpath.val
                  [] xpath.kind = "xtext" ->
                        k > 2 /\ doc[k].tag = xpath.tag /\ Includes(doc[k].text, xpath.txt)
                  [] xpath.kind = "xid" -> doc[k].id = xpath.val
                  [] xpath.kind = "xpos" ->
                        /\ xpath.val = Null
                        /\ doc[k].tag = xpath.tag
                        /\ k > 2 => getNthChild(doc, k) = xpath.n
                  [] OTHER -> FALSE}
    IN IF found = {} THEN 0 ELSE CHOOSE k \in found : \A m \in found : k <= m

\* const [element] = await page.$x(xpath); if (element) element.click()
XPathClicks(doc, xpath) ==
    XPathFirst(doc, xpath) # 0 /\ Clickable(doc[XPathFirst(doc, xpath)])

\* The in-page loop: some element has the stored fingerprint (el.click()
\* in the page does not throw)
FingerprintClicks(doc, fingerprint) ==
    \E k \in 1..Len(doc) : Fingerprint(doc[k]) = fingerprint

\* ---- inputs
\* The elements descriptors were built from, each alone in its <body>,
\* with the bounding box as it reaches the descriptor (NoBox: the
\* DOMRect lost its properties on the way out of the page)
ChangedPageScanned ==
    {Element("button", Null, Null, Null, "Send", Null, Null, Null, TSend, box) :
        box \in {ScanBox, NoBox}}
    \cup {Element("button", Null, Null, Null, Null, Null, Null, Null, TSend, box) :
            box \in {ScanBox, NoBox}}
    \cup {Element("div", Null, Null, "button", Null, Null, Null, Null, TSend, box) :
            box \in {ScanBox, NoBox}}
    \cup {Element("input", Null, Null, Null, Null, Null, "Email", Null, <<>>, box) :
            box \in {ScanBox, NoBox}}

ChangedPageDescriptors ==
    {ElementInfoAt(Document(Null, <<el>>), 3, o) :
        el \in ChangedPageScanned, o \in {o \in ScanOptions : o.crawler = "enhanced"}}

ChangedPageDocuments ==
    {Document(Null, children) : children \in LivePages}

InitChangedPage ==
    /\ NoApi
    /\ info \in ChangedPageDescriptors
    /\ dom \in ChangedPageDocuments
    /\ pc = PhaseAfter(info, 0)
    /\ i = 1
    /\ attempts = <<>>
    /\ clicks = <<>>
    /\ exactMatch = NoResult
    /\ scoreCandidates = <<>>
    /\ best = NoBest
    /\ result = NoResult
    /\ NoScan
    /\ NoExecution

\* One iteration of `for (const xpath of elementInfo.xpaths)` on the
\* document
ChangedPageXPath ==
    /\ pc = "xpath"
    /\ LET xpath == info.xpaths[i]
           ok == XPathClicks(dom, xpath)
       IN /\ attempts' = Append(attempts, Attempt("xpath", xpath, ok, 0, 0))
          /\ IF ok
             THEN /\ clicks' = Append(clicks, "xpath")
                  /\ ClickReturns(XPathSuccess(xpath))
             ELSE /\ clicks' = clicks
                  /\ IF i + 1 <= Len(info.xpaths)
                     THEN /\ i' = i + 1
                          /\ UNCHANGED <<pc, exactMatch>>
                     ELSE FallThrough("xpath")
    /\ UNCHANGED <<apiVars, scanVars, execVars, info, dom, scoreCandidates, best, result>>

\* The fingerprint loop on the document
ChangedPageFingerprint ==
    /\ pc = "fingerprint"
    /\ LET ok == FingerprintClicks(dom, info.fingerprint)
       IN /\ attempts' = Append(attempts, Attempt("fingerprint", NoSel, ok, 0, 0))
          /\ IF ok
             THEN /\ clicks' = Append(clicks, "fingerprint")
                  /\ ClickReturns(FingerprintSuccess)
             ELSE /\ clicks' = clicks
                  /\ FallThrough("fingerprint")
    /\ UNCHANGED <<apiVars, scanVars, execVars, info, dom, scoreCandidates, best, result>>

\* findElement: the fuzzy page.evaluate on the document
ChangedPageFuzzyMatch ==
    /\ pc = "returned"
    /\ ~ExactSucceeded(exactMatch)
    /\ scoreCandidates' = ScoreCandidates(info, dom)
    /\ best' = BestCandidate(ScoreCandidates(info, dom))
    /\ result' = FuzzyMatchResult(BestCandidate(ScoreCandidates(info, dom)))
    /\ attempts' = Append(attempts, Attempt("fuzzy", NoSel, result'.found, 0, 0))
    /\ pc' = "done"
    /\ UNCHANGED <<apiVars, scanVars, execVars, info, i, clicks, exactMatch, dom>>

NextChangedPage ==
    \/ RoundTripCss
    \/ ChangedPageXPath
    \/ TryText
    \/ TryCoordinates
    \/ ChangedPageFingerprint
    \/ ReturnExact
    \/ ChangedPageFuzzyMatch

SpecChangedPage == InitChangedPage /\ [][NextChangedPage]_vars

\* The replacement scenario: the descriptor of <button aria-label="Send">
\* Send</button>, and a live document whose only element is
\* <div role="button">Send</div> at the button's position
ButtonReplacedByDiv ==
    /\ info.tag = "button" /\ info.ariaLabel = "Send" /\ info.text = TSend
    /\ info.role = Null /\ info.id = Null
    /\ dom = Document(Null, <<Element("div", Null, Null, "button", Null, Null, Null,
                                      Null, TSend, ScanBox)>>)

\* C23: in the replacement scenario every exact strategy of clickElement
\* fails, clickElement returns success false, and the fuzzy matcher
\* accepts the div with score 50 (role 15, text 20, position 15)
C23_ReplacementScores50 ==
    (ButtonReplacedByDiv /\ pc \in {"returned", "done"}) =>
        /\ ~exactMatch.success
        /\ pc = "done" => (result.found /\ result.score = 50 /\ best.element = 3)

\* C23 as amended: in the replacement scenario every CSS, XPath, text and
\* fingerprint attempt fails; clickElement succeeds only by the coordinate
\* click, at the centre of the stored box; and when the fuzzy matcher runs
\* (no usable stored box, or the mouse click threw) its best candidate is
\* the div, with score 35 (text 20, position 15) and accepted when the
\* descriptor has a box; when it has none the best candidate is <html>,
\* first of the elements whose text holds "Send", with score 20, rejected
C23_ReplacementClickedOrScores35 ==
    ButtonReplacedByDiv =>
        /\ \A k \in 1..Len(attempts) :
              attempts[k].method \in {"css", "xpath", "text", "fingerprint"}
                  => ~attempts[k].ok
        /\ (pc \in {"returned", "done"} /\ exactMatch.success) =>
              (BoxUsable /\ exactMatch = CoordinatesSuccess(140, 110))
        /\ (pc \in {"returned", "done"} /\ BoxUsable /\ ~exactMatch.success) =>
              \E k \in 1..Len(attempts) :
                  attempts[k].method = "coordinates" /\ ~attempts[k].ok
        /\ FuzzyResolved =>
              /\ best.score = (IF info.boundingBox.has THEN 35 ELSE 20)
              /\ best.element = (IF info.boundingBox.has THEN 3 ELSE 1)
              /\ result.found = info.boundingBox.has
              /\ result.found => result.score = 35

\* The mouse click threw, and the fuzzy matcher accepted the div with 35
C23_Witness ==
    /\ ButtonReplacedByDiv
    /\ FuzzyResolved
    /\ BoxUsable
    /\ result.found
    /\ result.score = 35
    /\ \E k \in 1..Len(attempts) : attempts[k].method = "css" /\ ~attempts[k].ok

\* ------------------------------------------------- claims about the scan
\* of shadow roots
\* C24: every descriptor of the allElements output of the second class,
\* the shadow DOM ones included, carries an interactionScore that is an
\* integer >= 0
C24_EveryDescriptorHasInteractionScore ==
    (pc \in {"extracted", "deduped"} /\ options.crawler = "enhanced") =>
        \A m \in 1..Len(results.allElements) :
            /\ "interactionScore" \in DOMAIN results.allElements[m]
            /\ results.allElements[m].interactionScore \in Nat

\* ============================================== the uses of a descriptor
\* A call of findElement (and so of clickElement) with a descriptor, or a
\* call of executeAutomation with a stored elements list
InitUse == Init \/ InitExec

NextUse == Next \/ NextExec

SpecUse == InitUse /\ [][NextUse]_vars

\* C25: a stored descriptor is never mutated by use: no step of
\* clickElement, findElement or executeAutomation changes a field of the
\* descriptor passed in or an entry of the stored elements list
C25_DescriptorsNeverMutated ==
    [][info' = info /\ elements' = elements]_vars

\* An execution that acted on a stored entry and finished, and a
\* findElement call that went through every strategy of a descriptor
C25_Witness ==
    \/ /\ pc = "done"
       /\ elements # <<>>
       /\ \E k \in 1..Len(stepResults) :
            stepResults[k].status = "success" /\ Interacts(plan[k].action)
    \/ /\ FuzzyResolved
       /\ info # NoResult

\* ===================================== categories and supported actions
\* ---- inputs: the properties of a descriptor the two functions read
CategorizeTags == {"button", "input", "textarea", "select", "a", "form", "h1", "h6",
                   "img", "div"}

CategorizeTypes == {Null, "text", "password", "email", "submit", "checkbox"}

CategorizeRoles == {Null, "button", "checkbox", "radio", "link"}

\* Descriptors without interactionScore (shadow DOM ones) and with it
CategorizeInputs ==
    LET base == [tag : CategorizeTags, type : CategorizeTypes, role : CategorizeRoles,
                 ariaLabel : {Null, "Send"}]
    IN base \cup {b @@ [interactionScore |-> s] : b \in base, s \in {0, 3}}

InitCategorize ==
    /\ NoApi
    /\ info \in CategorizeInputs
    /\ result = Null
    /\ pc = "category"
    /\ i = 1
    /\ attempts = <<>>
    /\ clicks = <<>>
    /\ exactMatch = NoResult
    /\ dom = <<>>
    /\ scoreCandidates = <<>>
    /\ best = NoBest
    /\ NoScan
    /\ NoExecution

\* category: categorizeElement(element)
Categorize ==
    /\ pc = "category"
    /\ result' = [category |-> categorizeElement(info)]
    /\ pc' = "supportedActions"
    /\ UNCHANGED <<apiVars, scanVars, execVars, info, i, attempts, clicks, exactMatch, dom,
                   scoreCandidates, best>>

\* supportedActions: getSupportedActions(element)
SupportedActions ==
    /\ pc = "supportedActions"
    /\ result' = [category |-> result.category,
                  supportedActions |-> getSupportedActions(info)]
    /\ pc' = "enriched"
    /\ UNCHANGED <<apiVars, scanVars, execVars, info, i, attempts, clicks, exactMatch, dom,
                   scoreCandidates, best>>

NextCategorize == Categorize \/ SupportedActions

SpecCategorize == InitCategorize /\ [][NextCategorize]_vars

\* The 15 categories of the descriptor export shape
ListedCategories ==
    {<<"button">>, <<"input", "text">>, <<"input", "password">>, <<"input", "email">>,
     <<"submit", "button">>, <<"textarea">>, <<"dropdown">>, <<"link">>, <<"form">>,
     <<"heading">>, <<"image">>, <<"checkbox">>, <<"radio">>, <<"clickable">>,
     <<"generic">>}

ActionsReturned == {result.supportedActions[k] : k \in 1..Len(result.supportedActions)}

\* C26: categorizeElement returns one of the 15 listed categories;
\* getSupportedActions returns click and hover iff the category is button,
\* link, clickable or submit_button, type, clear and fill iff it is
\* input_text, input_password, input_email or textarea, select iff
\* dropdown, check and uncheck iff checkbox or radio, and nothing else;
\* <button aria-label="Send"> is a button with click and hover
C26_CategoriesAndActions ==
    /\ pc \in {"supportedActions", "enriched"} =>
          /\ result.category \in ListedCategories
          /\ (info.tag = "button" /\ info.ariaLabel = "Send")
                => result.category = <<"button">>
    /\ pc = "enriched" =>
          LET c == result.category
              clicks_ == c \in {<<"button">>, <<"link">>, <<"clickable">>,
                                <<"submit", "button">>}
              types == c \in {<<"input", "text">>, <<"input", "password">>,
                              <<"input", "email">>, <<"textarea">>}
              selects == c = <<"dropdown">>
              checks == c \in {<<"checkbox">>, <<"radio">>}
          IN ActionsReturned =
                 (IF clicks_ THEN {"click", "hover"} ELSE {})
                 \cup (IF types THEN {"type", "clear", "fill"} ELSE {})
                 \cup (IF selects THEN {"select"} ELSE {})
                 \cup (IF checks THEN {"check", "uncheck"} ELSE {})

\* <button aria-label="Send">: button, with click and hover
C26_Witness ==
    /\ pc = "enriched"
    /\ info.tag = "button" /\ info.ariaLabel = "Send" /\ info.role = Null
    /\ result.category = <<"button">>
    /\ result.supportedActions = <<"click", "hover">>

\* --------------------------------------- claims about the selector list
\* The stability tier of a selector, by its form: 1 semantic compound
\* (tag[aria-label], tag[role]), 2 data-* and test id, 3 aria-label, title,
\* placeholder, 4 id and name, 5 role and type, 6 parent relationship,
\* 7 positional path, 8 text content
StabilityTier(sel) ==
    CASE sel.kind = "tagattr" /\ sel.attr \in {"aria-label", "role"} -> 1
      [] sel.kind \in {"attr", "tagattr"} /\ sel.attr = "data-testid" -> 2
      [] sel.kind \in {"attr", "tagattr"}
            /\ sel.attr \in {"aria-label", "title", "placeholder"} -> 3
      [] sel.kind \in {"id", "cssid"} -> 4
      [] sel.kind \in {"attr", "tagattr"} /\ sel.attr = "name" -> 4
      [] sel.kind \in {"attr", "tagattr"} /\ sel.attr \in {"role", "type"} -> 5
      [] sel.kind = "rel" -> 6
      [] sel.kind = "pos" -> 7
      [] sel.kind = "hastext" -> 8
      [] OTHER -> 9

\* C27: in every descriptor's selector list the entries appear in the
\* order of the stability tiers, so the positional selector precedes the
\* text-content selector when both are present, and the text-content
\* selector is present only for a trimmed text of 1 to 99 characters
C27_SelectorsInTierOrder ==
    DescriptorsBuilt =>
        \A m \in 1..Len(results.allElements) :
            LET d == results.allElements[m]
            IN /\ \A a, b \in 1..Len(d.selectors) :
                    a < b => StabilityTier(d.selectors[a]) <= StabilityTier(d.selectors[b])
               /\ (\E a \in 1..Len(d.selectors) : d.selectors[a].kind = "hastext")
                    => (Len(d.text) >= 1 /\ Len(d.text) <= 99)

\* ------------------------------------ claims about the coordinate click
\* No CSS, XPath or text attempt has succeeded
SelectorsAllFailed ==
    \A k \in 1..Len(attempts) :
        attempts[k].method \in {"css", "xpath", "text"} => ~attempts[k].ok

\* C28: for a descriptor with a bounding box of width > 0, once every CSS,
\* XPath and text strategy has failed the coordinate click is made, and
\* unless it throws clickElement returns success with method
\* "coordinates", whatever the document holds; the fuzzy matcher runs only
\* for a descriptor without a box of positive width, or after the mouse
\* click threw
C28_CoordinatesPreemptFuzzy ==
    /\ \A k \in 1..Len(attempts) :
          (attempts[k].method = "coordinates" /\ attempts[k].ok) =>
              /\ BoxUsable
              /\ k = Len(attempts)
              /\ \A j \in 1..(k - 1) :
                    attempts[j].method \in {"css", "xpath", "text"} /\ ~attempts[j].ok
              /\ pc \in {"returned", "done"}
              /\ exactMatch.success /\ exactMatch.method = "coordinates"
              /\ pc = "done" => result = exactMatch
    /\ (BoxUsable /\ SelectorsAllFailed /\ pc \in {"fingerprint", "returned", "done"}) =>
          \E k \in 1..Len(attempts) : attempts[k].method = "coordinates"
    /\ FuzzyRan =>
          \/ ~BoxUsable
          \/ \E k \in 1..Len(attempts) :
                attempts[k].method = "coordinates" /\ ~attempts[k].ok

\* The coordinate click succeeded on a document with an empty <body>,
\* after CSS, XPath and text attempts that all failed
C28_Witness ==
    /\ dom = Document(Null, <<>>)
    /\ pc = "returned"
    /\ exactMatch = CoordinatesSuccess(140, 110)
    /\ \A m \in {"css", "xpath", "text"} :
          \E k \in 1..Len(attempts) : attempts[k].method = m /\ ~attempts[k].ok

\* ============================================================ the server
\* The handlers of /api/extract, /api/generate-automation and
\* /api/pages/:pageId run on one thread: a handler runs from one await to
\* the next without interruption, and the handlers of different requests
\* interleave at their awaits.
MaxClock == 1

\* Map.prototype.set
MapSet(map, key, value) == (key :> value) @@ map

MapHas(map, key) == key \in DOMAIN map

\* new URL(url).hostname.replace(/\./g, "_") on the URLs of the model
HostnameId(url) ==
    CASE url = "https://a.example/chat" -> "a_example"
      [] url = "https://b.example/" -> "b_example"

\* const pageId = pageName || new URL(url).hostname.replace(/\./g, "_")
PageIdOf(pageName, url) == IF pageName # Null THEN pageName ELSE HostnameId(url)

\* `action_${Date.now()}`
ActionIdAt(time) == <<"action", time>>

\* ---- inputs
ExtractRequest(url, pageName) ==
    [route |-> "extract", url |-> url, pageName |-> pageName, pageId |-> Null,
     userIntent |-> Null]

GenerateRequest(pageId, userIntent) ==
    [route |-> "generate", url |-> Null, pageName |-> Null, pageId |-> pageId,
     userIntent |-> userIntent]

GetPageRequest(pageId) ==
    [route |-> "page", url |-> Null, pageName |-> Null, pageId |-> pageId,
     userIntent |-> Null]

RequestBodies ==
    <<ExtractRequest("https://a.example/chat", Null),
      ExtractRequest("https://b.example/", "a_example"),
      ExtractRequest(Null, Null),
      GenerateRequest("a_example", "click on send button"),
      GenerateRequest("a_example", "fill in email field"),
      GenerateRequest("a_example", Null),
      GetPageRequest("a_example")>>

\* Three requests are in flight.  They are interchangeable, so of the
\* assignments of bodies to requests that differ by a permutation one is
\* kept: the bodies in the order of RequestBodies
RequestIds == <<"r1", "r2", "r3">>

RequestAssignments ==
    {[k \in 1..Len(RequestIds) |-> RequestBodies[idx[k]]] :
        idx \in {f \in [1..Len(RequestIds) -> 1..Len(RequestBodies)] :
                    \A k \in 1..(Len(RequestIds) - 1) : f[k] <= f[k + 1]}}

\* What crawler.crawl(url) can find at the URL
CrawledDocuments ==
    {Document(Null, <<>>),
     Document(Null, <<Element("button", Null, Null, Null, "Send", Null, Null, Null,
                              TSend, ScanBox)>>)}

\* crawlData.elements.allElements
CrawlElements(doc) ==
    RemoveDuplicates(ExtractedBuckets(doc, ExtractOptions), ExtractOptions).allElements

\* The plans callLLM can resolve to
LlmPlans == {<<[action |-> "click", elementId |-> ElemId(2)]>>}

NoResponse == [status |-> 0]

InitApi ==
    /\ database = EmptyDatabase
    /\ \E bodies \in RequestAssignments :
          requests = [k \in 1..Len(RequestIds) |->
                          [body |-> bodies[k], at |-> "received", response |-> NoResponse]]
    /\ now = 0
    /\ pc = "serving"
    /\ info = NoResult
    /\ i = 1
    /\ attempts = <<>>
    /\ clicks = <<>>
    /\ exactMatch = NoResult
    /\ dom = <<>>
    /\ scoreCandidates = <<>>
    /\ best = NoBest
    /\ result = NoResult
    /\ NoScan
    /\ NoExecution

nonApiVars == <<info, pc, i, attempts, clicks, exactMatch, dom, scoreCandidates, best,
                result, scanVars, execVars>>

\* res.status(...).json(...): the handler of r is over
Responds(r, response) ==
    requests' = [requests EXCEPT ![r].at = "responded", ![r].response = response]

Awaits(r, at) == requests' = [requests EXCEPT ![r].at = at]

\* The clock advances between two handler steps
Tick ==
    /\ now < MaxClock
    /\ now' = now + 1
    /\ UNCHANGED <<database, requests, nonApiVars>>

\* ---- POST /api/extract
\* Up to `await crawler.crawl(url)`
ExtractReceived(r) ==
    /\ requests[r].body.route = "extract"
    /\ requests[r].at = "received"
    /\ IF requests[r].body.url = Null
       THEN Responds(r, [status |-> 400])
       ELSE Awaits(r, "crawl")
    /\ UNCHANGED <<database, now, nonApiVars>>

\* Variant of StorePage: the page is registered, its elements are not
StorePageOnly(db, pageId, pageInfo, enrichedElements) ==
    [db EXCEPT !.pages = MapSet(db.pages, pageId, pageInfo)]

\* database.pages.set(pageId, pageInfo);
\* database.elements.set(pageId, enrichedElements)
StorePage(db, pageId, pageInfo, enrichedElements) ==
    [db EXCEPT !.pages = MapSet(db.pages, pageId, pageInfo),
               !.elements = MapSet(db.elements, pageId, enrichedElements)]

\* From the end of the crawl up to `await saveToFile(...)`; a rejected
\* crawl goes to the catch
ExtractCrawled(r) ==
    /\ requests[r].body.route = "extract"
    /\ requests[r].at = "crawl"
    /\ \/ /\ Responds(r, [status |-> 500])
          /\ UNCHANGED database
       \/ \E doc \in CrawledDocuments :
            LET body == requests[r].body
                pageId == PageIdOf(body.pageName, body.url)
                enrichedElements == enrichElementsForAutomation(CrawlElements(doc))
                pageInfo == [id |-> pageId, url |-> body.url, extractedAt |-> now,
                             totalElements |-> Len(enrichedElements)]
            IN /\ database' = StorePage(database, pageId, pageInfo, enrichedElements)
               /\ Awaits(r, "save")
    /\ UNCHANGED <<now, nonApiVars>>

\* From the end of saveToFile to the response; a rejected write goes to
\* the catch
ExtractSaved(r) ==
    /\ requests[r].body.route = "extract"
    /\ requests[r].at = "save"
    /\ \E ok \in BOOLEAN :
        IF ok
        THEN LET body == requests[r].body
                 pageId == PageIdOf(body.pageName, body.url)
             IN Responds(r, [status |-> 200, pageId |-> pageId])
        ELSE Responds(r, [status |-> 500])
    /\ UNCHANGED <<database, now, nonApiVars>>

\* ---- POST /api/generate-automation
\* Up to `await callLLM(...)`
GenerateReceived(r) ==
    /\ requests[r].body.route = "generate"
    /\ requests[r].at = "received"
    /\ LET body == requests[r].body
       IN IF body.pageId = Null \/ body.userIntent = Null
          THEN Responds(r, [status |-> 400])
          ELSE IF ~MapHas(database.pages, body.pageId)
                  \/ ~MapHas(database.elements, body.pageId)
               THEN Responds(r, [status |-> 404])
               ELSE Awaits(r, "callLLM")
    /\ UNCHANGED <<database, now, nonApiVars>>

\* From the end of callLLM to the response; a rejected call goes to the
\* catch
GenerateStored(r) ==
    /\ requests[r].body.route = "generate"
    /\ requests[r].at = "callLLM"
    /\ \/ /\ Responds(r, [status |-> 500])
          /\ UNCHANGED database
       \/ \E automationPlan \in LlmPlans :
            LET body == requests[r].body
                actionId == ActionIdAt(now)
            IN /\ database' =
                    [database EXCEPT !.actions =
                        MapSet(database.actions, actionId,
                               [actionId |-> actionId, pageId |-> body.pageId,
                                userIntent |-> body.userIntent, plan |-> automationPlan,
                                createdAt |-> now, executed |-> FALSE])]
               /\ Responds(r, [status |-> 200, actionId |-> actionId])
    /\ UNCHANGED <<now, nonApiVars>>

\* ---- GET /api/pages/:pageId
\* The handler has no await and no try: elements.length throws when the
\* elements map has no entry
GetPage(r) ==
    /\ requests[r].body.route = "page"
    /\ requests[r].at = "received"
    /\ LET pageId == requests[r].body.pageId
       IN IF ~MapHas(database.pages, pageId)
          THEN Responds(r, [status |-> 404])
          ELSE IF ~MapHas(database.elements, pageId)
               THEN Responds(r, [status |-> "threw"])
               ELSE Responds(r, [status |-> 200,
                                 page |-> database.pages[pageId],
                                 total |-> Len(database.elements[pageId])])
    /\ UNCHANGED <<database, now, nonApiVars>>

NextApi ==
    \/ Tick
    \/ \E r \in 1..Len(RequestIds) :
        \/ ExtractReceived(r)
        \/ ExtractCrawled(r)
        \/ ExtractSaved(r)
        \/ GenerateReceived(r)
        \/ GenerateStored(r)
        \/ GetPage(r)

SpecApi == InitApi /\ [][NextApi]_vars

\* ------------------------------------------------ claims about the store
\* The generate requests answered with an actionId
Generated ==
    {r \in 1..Len(RequestIds) :
        /\ requests[r].body.route = "generate"
        /\ requests[r].response.status = 200}

\* C29: under any interleaving of /api/generate-automation requests every
\* successful request gets an actionId no other request got, and the
\* record stored under it is its own: no stored action is overwritten
C29_ActionIdsDistinct ==
    /\ \A r, s \in Generated :
          r # s => requests[r].response.actionId # requests[s].response.actionId
    /\ Cardinality(DOMAIN database.actions) = Cardinality(Generated)

====
